---- MODULE Spec2Model ----
(***************************************************************************)
(* Model of getValidatorPayments                                           *)
(* (src/get-validator-payments/fetch-validator-payments.js) and of         *)
(* findBlockByTimestamp (src/unnamed/part_000).                            *)
(*                                                                         *)
(* Spec and SpecFixed are the slot scan from the state in which it starts, *)
(* SpecEntry is the entry (dates, genesis, slot range, validator lookups)  *)
(* up to the first await of the scan, SpecAmounts is the scan of one slot  *)
(* whose block is drawn from a set of blocks, SpecProgram is the whole     *)
(* call, entry and scan, for a range of two slots at most (SpecProgramFair *)
(* adds that every fetch settles and every timer fires), SpecSearch is the *)
(* binary search of findBlockByTimestamp.                                  *)
(*                                                                         *)
(* The scan is a single-threaded JavaScript program: the code between two  *)
(* awaits runs to completion, so every action below is the synchronous     *)
(* continuation that follows one await: a fetch that resolves with the     *)
(* status and headers of the response, a res.json() that settles with the  *)
(* decoded body, a backoff timer that fires, Promise.allSettled that       *)
(* resumes the main function.                                              *)
(*                                                                         *)
(* Amounts are JavaScript Numbers, binary64 as in the code: the quotients  *)
(* of lines 274 and 332, the subtraction of line 276 and the sums of lines *)
(* 278, 280, 333 and 334 are rounded to nearest, ties to even.  wd.amount, *)
(* a decimal string of gwei, is given as its groups of nine digits;        *)
(* prioritySum, a BigInt in the code, is an integer.  The amounts of the   *)
(* model stay inside the normal range of binary64: no subnormal, no        *)
(* infinity, no NaN and no -0 arises.                                      *)
(*                                                                         *)
(* The chain of Spec and SpecProgram (BeaconBlock) holds amounts that are  *)
(* multiples of a quarter coin, which binary64 adds without rounding; the  *)
(* chain of SpecFixed (TenthsBlock) holds tenths of a coin and the blocks  *)
(* of SpecAmounts hold amounts one gwei apart, which it rounds.            *)
(***************************************************************************)
EXTENDS Integers, Sequences, FiniteSets, TLC

(***************************************************************************)
(* Bounds of the model.                                                    *)
(***************************************************************************)
\* slots 0 .. MaxSlot - 1 can be in the scanned range
MaxSlot == 3
\* the configured concurrency is drawn from 1 .. MaxConcurrency
MaxConcurrency == 2
\* the date arguments denote instants in -MaxTs .. MaxTs (and 12, 24)
MaxTs == 3
\* withdrawal amounts up to MaxExcess gwei around the maximum effective
\* balance, fees per gas in 0 .. MaxFee (and 10)
MaxExcess == 2
MaxFee == 4
\* findBlockByTimestamp: the largest head block number and the largest block
\* timestamp
MaxHead == 4
MaxStamp == 5

(***************************************************************************)
(* Program constants.                                                      *)
(***************************************************************************)
\* config.gwei_to_pls, the documented value (line 24)
GWEI_TO_PLS == 1000000000
\* config.max_effective_balance
MAX_EFFECTIVE_BALANCE == 32
\* the `retries` argument every call of retry() passes (and its default)
RETRIES == 4

Slots == 0 .. (MaxSlot - 1)

(***************************************************************************)
(* JavaScript's Number: IEEE 754 binary64.  A Number is the record         *)
(* [neg, m, e] of value (-1)^neg * m * 2^e, with m an odd natural held as  *)
(* its limbs of LIMB_BITS bits, least significant first; zero has no limb. *)
(* Add and Divide give the correctly rounded result (round to nearest,     *)
(* ties to even) of the 53-bit format.                                     *)
(***************************************************************************)
\* limbs of the naturals: digits in base LIMB = 2^LIMB_BITS
LIMB == 32768
LIMB_BITS == 15
\* the bits of the significand of a binary64
PRECISION == 53

Pow2(n) == 2 ^ n

\* the natural n as limbs
RECURSIVE BigOfInt(_)
BigOfInt(n) == IF n = 0 THEN << >> ELSE << n % LIMB >> \o BigOfInt(n \div LIMB)

\* without leading zero limbs
RECURSIVE BigTrim(_)
BigTrim(a) ==
  IF a = << >> THEN a
  ELSE IF a[Len(a)] = 0 THEN BigTrim(SubSeq(a, 1, Len(a) - 1)) ELSE a

Limb(a, i) == IF i <= Len(a) THEN a[i] ELSE 0

RECURSIVE BigAddFrom(_, _, _, _)
BigAddFrom(a, b, i, carry) ==
  IF i > Len(a) /\ i > Len(b)
    THEN IF carry = 0 THEN << >> ELSE << carry >>
    ELSE LET t == Limb(a, i) + Limb(b, i) + carry
         IN << t % LIMB >> \o BigAddFrom(a, b, i + 1, t \div LIMB)

\* a + b
BigAdd(a, b) == BigAddFrom(a, b, 1, 0)

RECURSIVE BigSubFrom(_, _, _, _)
BigSubFrom(a, b, i, borrow) ==
  IF i > Len(a) THEN << >>
  ELSE LET t == a[i] - Limb(b, i) - borrow
       IN << t % LIMB >> \o BigSubFrom(a, b, i + 1, IF t < 0 THEN 1 ELSE 0)

\* a - b for a >= b
BigSub(a, b) == BigTrim(BigSubFrom(a, b, 1, 0))

RECURSIVE BigLessFrom(_, _, _)
BigLessFrom(a, b, i) ==
  IF i = 0 THEN FALSE
  ELSE IF a[i] # b[i] THEN a[i] < b[i]
  ELSE BigLessFrom(a, b, i - 1)

\* a < b
BigLess(a, b) ==
  IF Len(a) # Len(b) THEN Len(a) < Len(b) ELSE BigLessFrom(a, b, Len(a))

RECURSIVE BigMulSmallFrom(_, _, _, _)
BigMulSmallFrom(a, k, i, carry) ==
  IF i > Len(a) THEN IF carry = 0 THEN << >> ELSE << carry >>
  ELSE LET t == a[i] * k + carry
       IN << t % LIMB >> \o BigMulSmallFrom(a, k, i + 1, t \div LIMB)

\* a * k for 0 <= k < LIMB
BigMulSmall(a, k) == IF k = 0 THEN << >> ELSE BigMulSmallFrom(a, k, 1, 0)

Zeros(n) == [i \in 1 .. n |-> 0]

RECURSIVE BigMulFrom(_, _, _)
BigMulFrom(a, b, j) ==
  IF j > Len(b) THEN << >>
  ELSE BigAdd(IF b[j] = 0 THEN << >> ELSE Zeros(j - 1) \o BigMulSmall(a, b[j]),
              BigMulFrom(a, b, j + 1))

\* a * b
BigMul(a, b) == IF a = << >> THEN << >> ELSE BigMulFrom(a, b, 1)

\* a * 2^n
BigShl(a, n) ==
  IF a = << >> THEN a
  ELSE Zeros(n \div LIMB_BITS) \o BigMulSmall(a, Pow2(n % LIMB_BITS))

\* floor(a / 2^n)
BigShr(a, n) ==
  LET q == n \div LIMB_BITS
      r == n % LIMB_BITS
  IN IF q >= Len(a) THEN << >>
     ELSE BigTrim([i \in 1 .. (Len(a) - q) |->
                     (a[i + q] \div Pow2(r))
                       + (Limb(a, i + q + 1) % Pow2(r)) * Pow2(LIMB_BITS - r)])

RECURSIVE IntBitLen(_)
IntBitLen(n) == IF n = 0 THEN 0 ELSE 1 + IntBitLen(n \div 2)

\* the number of bits of a
BigBitLen(a) ==
  IF a = << >> THEN 0 ELSE LIMB_BITS * (Len(a) - 1) + IntBitLen(a[Len(a)])

\* bit i (from 0) of a
BigBit(a, i) == (Limb(a, i \div LIMB_BITS + 1) \div Pow2(i % LIMB_BITS)) % 2

RECURSIVE IntTrailingZeros(_)
IntTrailingZeros(n) == IF n % 2 = 1 THEN 0 ELSE 1 + IntTrailingZeros(n \div 2)

RECURSIVE ZeroLimbs(_, _)
ZeroLimbs(a, i) == IF a[i] # 0 THEN i - 1 ELSE ZeroLimbs(a, i + 1)

\* the number of trailing zero bits of a # 0
BigTrailingZeros(a) ==
  LET z == ZeroLimbs(a, 1) IN LIMB_BITS * z + IntTrailingZeros(a[z + 1])

\* the Number 0
Zero == [neg |-> FALSE, m |-> << >>, e |-> 0]

\* the Number of value (-1)^neg * M * 2^e, for M of PRECISION bits at most
Exactly(neg, M, e) ==
  IF M = << >> THEN Zero
  ELSE LET z == BigTrailingZeros(M)
       IN [neg |-> neg, m |-> BigShr(M, z), e |-> e + z]

\* the Number nearest to (-1)^neg * M * 2^e, ties to even
Round(neg, M, e) ==
  LET len == BigBitLen(M) IN
  IF len <= PRECISION THEN Exactly(neg, M, e)
  ELSE LET sh == len - PRECISION
           q == BigShr(M, sh)
           half == BigBit(M, sh - 1) = 1
           sticky == BigTrailingZeros(M) < sh - 1
           up == half /\ (sticky \/ BigBit(q, 0) = 1)
       IN Exactly(neg, IF up THEN BigAdd(q, << 1 >>) ELSE q, e + sh)

\* the sum of the values of x and y, not rounded: (-1)^neg * M * 2^e
Sum(x, y) ==
  LET e == IF x.e < y.e THEN x.e ELSE y.e
      a == BigShl(x.m, x.e - e)
      b == BigShl(y.m, y.e - e)
  IN IF x.neg = y.neg THEN [neg |-> x.neg, M |-> BigAdd(a, b), e |-> e]
     ELSE IF BigLess(a, b) THEN [neg |-> y.neg, M |-> BigSub(b, a), e |-> e]
     ELSE [neg |-> x.neg, M |-> BigSub(a, b), e |-> e]

RECURSIVE OddPart(_, _, _)
OddPart(neg, n, e) ==
  IF n % 2 = 0 THEN OddPart(neg, n \div 2, e + 1)
  ELSE [neg |-> neg, m |-> BigOfInt(n), e |-> e]

\* the Number n * 2^e for an integer n below 2^31 in magnitude
Scaled(n, e) ==
  IF n = 0 THEN Zero ELSE IF n < 0 THEN OddPart(TRUE, -n, e) ELSE OddPart(FALSE, n, e)

\* the Number of an integer n below 2^31 in magnitude
FromInt(n) == Scaled(n, 0)

\* the Number of a natural given by its limbs
FromBig(a) == Round(FALSE, a, 0)

Signed(x) == IF x.neg THEN -x.m[1] ELSE x.m[1]

\* both significands fit one limb and the exponents are LIMB_BITS apart at
\* most: the sum is below 2^31 in magnitude and exact
Small(x, y) ==
  /\ Len(x.m) = 1
  /\ Len(y.m) = 1
  /\ x.e - y.e <= LIMB_BITS
  /\ y.e - x.e <= LIMB_BITS

\* x + y
Add(x, y) ==
  IF x.m = << >> THEN y
  ELSE IF y.m = << >> THEN x
  ELSE IF Small(x, y)
    THEN IF x.e < y.e
           THEN Scaled(Signed(x) + Signed(y) * Pow2(y.e - x.e), x.e)
           ELSE Scaled(Signed(x) * Pow2(x.e - y.e) + Signed(y), y.e)
  ELSE LET s == Sum(x, y) IN Round(s.neg, s.M, s.e)

\* -x
Neg(x) == IF x.m = << >> THEN x ELSE [x EXCEPT !.neg = ~@]

\* x < y
Less(x, y) ==
  /\ x # y
  /\ LET s == Sum(y, Neg(x)) IN s.M # << >> /\ ~s.neg

\* 2 * r + bit
Shifted(r, bit) == BigAdd(BigAdd(r, r), IF bit = 1 THEN << 1 >> ELSE << >>)

\* long division by d of r * LIMB + x, bits i down to 0 of the limb x, q the
\* bits of the quotient so far: the limb of the quotient and the remainder
RECURSIVE DivideBits(_, _, _, _, _)
DivideBits(q, r, x, d, i) ==
  IF i < 0 THEN [q |-> q, r |-> r]
  ELSE IF BigLess(Shifted(r, (x \div Pow2(i)) % 2), d)
    THEN DivideBits(2 * q, Shifted(r, (x \div Pow2(i)) % 2), x, d, i - 1)
    ELSE DivideBits(2 * q + 1, BigSub(Shifted(r, (x \div Pow2(i)) % 2), d), x, d, i - 1)

DivideLimb(qs, t) == [q |-> << t.q >> \o qs, r |-> t.r]

\* long division of a by d, limbs j down to 1 of a, s = [q, r] the limbs of
\* the quotient and the remainder so far
RECURSIVE DivideLimbs(_, _, _, _)
DivideLimbs(a, d, j, s) ==
  IF j = 0 THEN s
  ELSE DivideLimbs(a, d, j - 1, DivideLimb(s.q, DivideBits(0, s.r, a[j], d, LIMB_BITS - 1)))

\* the quotient and the remainder of a by d
BigDivMod(a, d) ==
  LET s == DivideLimbs(a, d, Len(a), [q |-> << >>, r |-> << >>])
  IN [q |-> BigTrim(s.q), r |-> s.r]

\* x / y, for y # 0: the quotient of the significands to PRECISION + 2 bits
\* and a sticky bit, rounded
Divide(x, y) ==
  IF x.m = << >> THEN Zero
  ELSE LET gap == PRECISION + 2 - BigBitLen(x.m) + BigBitLen(y.m)
           k == IF gap < 0 THEN 0 ELSE gap
           d == BigDivMod(BigShl(x.m, k), y.m)
           M == BigAdd(BigAdd(d.q, d.q), IF d.r = << >> THEN << >> ELSE << 1 >>)
       IN Round(x.neg # y.neg, M, x.e - y.e - k - 1)

(***************************************************************************)
(* The two external services.  The chain content is a fixture: what the    *)
(* beacon service answers for a slot whose block fetch is OK, what the     *)
(* execution service answers for a block number and for a receipt.  An     *)
(* amount of gwei is the decimal text of wd.amount in groups of nine       *)
(* digits: << 33, 0 >> is "33000000000".                                   *)
(***************************************************************************)
\* the digits of a group of the decimal text of an amount
DECIMAL_GROUP == 1000000000

\* blockData.data.message of GET /eth/v1/beacon/blocks/{slot}
BeaconBlock(s) ==
  CASE s % 4 = 0 ->
         [proposer_index |-> 5,
          execution_payload |->
            << [block_number |-> 100 + s, fee_recipient |-> "0xFEE",
                withdrawals |->
                  << [validator_index |-> 5, amount |-> << 33, 0 >>, address |-> "0xAAA"],
                     [validator_index |-> 9, amount |-> << 1, 500000000 >>, address |-> "0xCCC"] >>] >>]
    [] s % 4 = 1 ->
         [proposer_index |-> 9,
          execution_payload |->
            << [block_number |-> 100 + s, fee_recipient |-> "0xddd",
                withdrawals |->
                  << [validator_index |-> 7, amount |-> << 0, 500000000 >>, address |-> "0xaaa"],
                     [validator_index |-> 5, amount |-> << 32, 0 >>, address |-> "0xBBB"] >>] >>]
    [] s % 4 = 2 ->
         [proposer_index |-> 7, execution_payload |-> << >>]
    [] OTHER ->
         [proposer_index |-> 7,
          execution_payload |->
            << [block_number |-> 100 + s, fee_recipient |-> "0xfee",
                withdrawals |-> << >>] >>]

\* the same chain with other withdrawals: a tenth of a coin to 0xAAA in slot
\* 0, two and three tenths to the same address in slot 1, all of validator 5
TenthsBlock(s) ==
  CASE s % 4 = 0 ->
         [proposer_index |-> 5,
          execution_payload |->
            << [block_number |-> 100 + s, fee_recipient |-> "0xFEE",
                withdrawals |->
                  << [validator_index |-> 5, amount |-> << 0, 100000000 >>, address |-> "0xAAA"],
                     [validator_index |-> 9, amount |-> << 1, 500000000 >>, address |-> "0xCCC"] >>] >>]
    [] s % 4 = 1 ->
         [proposer_index |-> 9,
          execution_payload |->
            << [block_number |-> 100 + s, fee_recipient |-> "0xddd",
                withdrawals |->
                  << [validator_index |-> 5, amount |-> << 0, 200000000 >>, address |-> "0xaaa"],
                     [validator_index |-> 5, amount |-> << 0, 300000000 >>, address |-> "0xAAA"] >>] >>]
    [] OTHER -> BeaconBlock(s)

\* block.result of eth_getBlockByNumber(blockNumber, true)
ExecBlock(n) ==
  IF n % 4 = 0
    THEN [baseFeePerGas |-> 3,
          transactions |->
            << [hash |-> "t1", maxPriorityFeePerGas |-> 2, maxFeePerGas |-> 10],
               [hash |-> "t2", maxPriorityFeePerGas |-> 4, maxFeePerGas |-> 5] >>]
    ELSE [baseFeePerGas |-> 3, transactions |-> << >>]

\* data.result.gasUsed of eth_getTransactionReceipt(hash)
ReceiptGasUsed(h) == IF h = "t1" THEN 1000 ELSE 10

\* wd.amount of the blocks given as input: none, 33 coins, and the amounts
\* MaxExcess gwei at most from the maximum effective balance
WithdrawalAmounts ==
  {<< 0, 0 >>, << 33, 0 >>}
    \cup {<< MAX_EFFECTIVE_BALANCE, k >> : k \in 0 .. MaxExcess}
    \cup {<< MAX_EFFECTIVE_BALANCE - 1, DECIMAL_GROUP - k >> : k \in 1 .. MaxExcess}

\* the fee fields of a transaction and the base fee of a block, per gas
Fees == (0 .. MaxFee) \cup {10}

\* tx of b.transactions: with the fee-cap fields, or a legacy transaction
\* with gasPrice only
Transactions ==
  {[hash |-> "t1", maxPriorityFeePerGas |-> p, maxFeePerGas |-> f] :
     p \in {0, 2, MaxFee}, f \in Fees}
    \cup {[hash |-> "t1", gasPrice |-> f] : f \in Fees}

\* the blocks given as input: one withdrawal, one transaction
Inputs ==
  [kind : {"block"},
   withdrawal : [validator_index : {5, 9}, amount : WithdrawalAmounts, address : {"0xAAA"}],
   baseFeePerGas : {0, 3},
   tx : Transactions,
   gasUsed : {10, 1000}]

\* String.prototype.toLowerCase on the addresses of the fixture
toLowerCase(a) ==
  CASE a = "0xAAA" -> "0xaaa"
    [] a = "0xBBB" -> "0xbbb"
    [] a = "0xCCC" -> "0xccc"
    [] a = "0xFEE" -> "0xfee"
    [] OTHER -> a

\* what a fetch can answer: the promise rejects (network error, timeout) or
\* resolves, when the headers of the response arrive, with an HTTP status
BeaconOutcomes == {"reject", "200", "400", "404", "500"}
\* eth_getBlockByNumber: rejects, non-OK status, OK
RpcOutcomes == {"reject", "500", "200"}
\* eth_getTransactionReceipt: rejects, non-OK status, OK
GasOutcomes == {"reject", "500", "200"}

\* what `await res.json()` can give once the response is OK: the decoded
\* body, or a rejection (the body cannot be read or is not JSON)
JsonBodies == {"json", "unreadable"}
\* the body of eth_getBlockByNumber: a result, an RPC error object, no
\* result, or unreadable
RpcBodies == {"result", "error", "null", "unreadable"}
\* the body of eth_getTransactionReceipt: a result, an RPC error object, no
\* result ({result: null}: a transaction the node does not know), or
\* unreadable
GasBodies == {"result", "error", "null", "unreadable"}

(***************************************************************************)
(* The arguments of getValidatorPayments and what the beacon service       *)
(* answers to the genesis and validator requests.                          *)
(***************************************************************************)
\* the instants, in seconds, a date argument can denote
Timestamps == ((-MaxTs) .. MaxTs) \cup {12, 24}

\* a date argument, given as the value of
\* Math.floor(new Date(date + 'T00:00:00Z').getTime() / 1000): NaN for a text
\* that does not parse, else the seconds of that instant
Dates ==
  {[nan |-> TRUE, seconds |-> 0]}
    \cup {[nan |-> FALSE, seconds |-> t] : t \in Timestamps}

\* config.slot_interval_seconds
SlotIntervals == {3, 12}

\* genesisData.data.genesis_time
GenesisTimes == {-3, 0, 2}

\* the identifier lists given as `ids`
IdLists == {<< >>, << "0xpk7" >>, << "5", "0xpk7" >>, << "5", "0xpk5" >>}

\* data.data of GET /eth/v1/beacon/states/finalized/validators/{id}; the
\* withdrawal credentials are given as their first four characters and their
\* last forty
ValidatorData(ident) ==
  IF ident \in {"5", "0xpk5"}
    THEN [index |-> 5,
          validator |-> [pubkey |-> "0xpk5",
                         withdrawal_credentials |-> [head |-> "0x01", last40 |-> "aaa"]]]
    ELSE [index |-> 7,
          validator |-> [pubkey |-> "0xpk7",
                         withdrawal_credentials |-> [head |-> "0x00", last40 |-> "b75"]]]

\* the errors a fetch rejects with: connection failure, timeout abort
Rejections == {"ECONNREFUSED", "AbortError"}
\* the genesis fetch: rejects, or resolves with an HTTP status
GenesisOutcomes == Rejections \cup {"200", "500"}
\* a validator fetch: rejects, or resolves with an HTTP status
ValidatorOutcomes == Rejections \cup {"200", "404", "500"}

(***************************************************************************)
(* Pure parts of the slot unit.                                            *)
(***************************************************************************)
\* body.execution_payload?.withdrawals || []
WithdrawalsOf(message) ==
  IF Len(message.execution_payload) = 0 THEN << >>
  ELSE message.execution_payload[1].withdrawals

\* lines 322-324: the per-gas tip of a transaction
Tip(tx, baseFee) ==
  LET maxPriority == IF "maxPriorityFeePerGas" \in DOMAIN tx
                       THEN tx.maxPriorityFeePerGas ELSE 0
      maxFee == IF "maxFeePerGas" \in DOMAIN tx THEN tx.maxFeePerGas
                ELSE IF "gasPrice" \in DOMAIN tx THEN tx.gasPrice ELSE 0
  IN IF maxPriority < maxFee - baseFee THEN maxPriority ELSE maxFee - baseFee

\* the natural written by groups 1 .. i of a decimal text
RECURSIVE Decimal(_, _)
Decimal(text, i) ==
  IF i = 0 THEN << >>
  ELSE BigAdd(BigMul(Decimal(text, i - 1), BigOfInt(DECIMAL_GROUP)), BigOfInt(text[i]))

\* parseInt(wd.amount)
parseInt(text) == FromBig(Decimal(text, Len(text)))

\* line 274: amount = parseInt(wd.amount) / GWEI_TO_PLS
AmountInCoins(text) == Divide(parseInt(text), FromInt(GWEI_TO_PLS))

\* lines 275-277: if (amount > MAX_EFFECTIVE_BALANCE)
\* amount -= MAX_EFFECTIVE_BALANCE
StripPrincipal(amount) ==
  IF Less(FromInt(MAX_EFFECTIVE_BALANCE), amount)
    THEN Add(amount, Neg(FromInt(MAX_EFFECTIVE_BALANCE)))
    ELSE amount

\* the amounts of the withdrawals of a block
AmountsOf(message) ==
  {WithdrawalsOf(message)[k].amount : k \in 1 .. Len(WithdrawalsOf(message))}

\* every wd.amount of the chains and of the blocks given as input
Amounts ==
  UNION {AmountsOf(BeaconBlock(s)) \cup AmountsOf(TenthsBlock(s)) : s \in Slots}
    \cup WithdrawalAmounts

\* lines 274-277 on every amount, evaluated once (@@ makes the function
\* explicit)
ConsensusAmounts ==
  [text \in Amounts |-> StripPrincipal(AmountInCoins(text))] @@ << >>

\* lines 274-277: the amount credited for a withdrawal of wd.amount = text
ConsensusAmount(text) == ConsensusAmounts[text]

\* the values prioritySum can have after transactions 1 .. k of the execution
\* block b: a transaction whose receipt is not obtained adds nothing
RECURSIVE PartialSums(_, _)
PartialSums(b, k) ==
  IF k = 0 THEN {0}
  ELSE LET rest == PartialSums(b, k - 1)
           t == Tip(b.transactions[k], b.baseFeePerGas)
                  * ReceiptGasUsed(b.transactions[k].hash)
       IN rest \cup {p + t : p \in rest}

\* every value of prioritySum at line 332
PrioritySums ==
  UNION {PartialSums(ExecBlock(100 + s), Len(ExecBlock(100 + s).transactions)) :
           s \in Slots}
    \cup {Tip(b.tx, b.baseFeePerGas) * b.gasUsed : b \in Inputs}

\* Number(prioritySum), for a BigInt below 2^31 in magnitude
Number(n) == FromInt(n)

\* the literal 1e18
E18 == FromBig(BigMul(BigOfInt(1000000000), BigOfInt(1000000000)))

\* line 332 on every value of prioritySum, evaluated once
ExecutionAmounts ==
  [p \in PrioritySums |-> Divide(Number(p), E18)] @@ << >>

\* line 332: executionAmount = Number(prioritySum) / 1e18
ExecutionAmount(prioritySum) == ExecutionAmounts[prioritySum]

\* obj[key] = (obj[key] || 0) + amount
CreditAddress(totals, addr, amount) ==
  [k \in (DOMAIN totals) \cup {addr} |->
     IF k = addr
       THEN Add(IF k \in DOMAIN totals THEN totals[k] ELSE Zero, amount)
       ELSE totals[k]]

\* = instead of +=
CreditConsensusLost(vals, index, amount) ==
  [vals EXCEPT ![index].consensus = amount]

\* validators[index].consensus += amount
CreditConsensus(vals, index, amount) ==
  [vals EXCEPT ![index].consensus = Add(@, amount)]

\* the consensus field credited instead of the execution field
CreditExecutionToConsensus(vals, index, amount) ==
  [vals EXCEPT ![index].consensus = Add(@, amount)]

\* validators[index].execution += amount
CreditExecution(vals, index, amount) ==
  [vals EXCEPT ![index].execution = Add(@, amount)]

\* line 273 left out for the address totals: every withdrawal is credited to
\* its address
RECURSIVE ProcessWithdrawalsAll(_, _, _, _)
ProcessWithdrawalsAll(wds, i, tracked, st) ==
  IF i > Len(wds) THEN st
  ELSE LET wd == wds[i]
           wdIndex == wd.validator_index
           amount == ConsensusAmount(wd.amount)
           addr == toLowerCase(wd.address)
       IN ProcessWithdrawalsAll(wds, i + 1, tracked,
            [validators |-> IF wdIndex \in tracked
                              THEN CreditConsensus(st.validators, wdIndex, amount)
                              ELSE st.validators,
             consensusTotals |-> CreditAddress(st.consensusTotals, addr, amount)])

\* lines 271-282: the withdrawal loop, from withdrawal i on; st is
\* [validators, consensusTotals]
RECURSIVE ProcessWithdrawals(_, _, _, _)
ProcessWithdrawals(wds, i, tracked, st) ==
  IF i > Len(wds) THEN st
  ELSE LET wd == wds[i]
           wdIndex == wd.validator_index
       IN IF wdIndex \in tracked
            THEN LET amount == ConsensusAmount(wd.amount)
                     addr == toLowerCase(wd.address)
                 IN ProcessWithdrawals(wds, i + 1, tracked,
                      [validators |-> CreditConsensus(st.validators, wdIndex, amount),
                       consensusTotals |-> CreditAddress(st.consensusTotals, addr, amount)])
            ELSE ProcessWithdrawals(wds, i + 1, tracked, st)

(***************************************************************************)
(* Pure parts of the entry: the slot range and the validator record.       *)
(***************************************************************************)
\* Math.floor(a / b) and Math.ceil(a / b) for integers a and b > 0
MathFloor(a, b) == a \div b

MathCeil(a, b) == -((-a) \div b)

\* Math.max(1, x): slots counted from 1
MathMax1(x) == IF x < 1 THEN 1 ELSE x

\* Math.max(0, x)
MathMax0(x) == IF x < 0 THEN 0 ELSE x

\* line 190 left out: no clamp
StartSlotUnclamped(ts, g, interval) == MathCeil(ts - g, interval)

\* lines 189-190
StartSlotOf(ts, g, interval) == MathMax0(MathCeil(ts - g, interval))

\* line 191
EndSlotOf(ts, g, interval) == MathFloor(ts - g, interval)

\* lines 210-216: the record created for a resolved validator
NewValidator(valData) ==
  LET withdrawalCred == valData.validator.withdrawal_credentials
  IN [pubkey |-> valData.validator.pubkey,
      withdrawAddress |-> IF withdrawalCred.head = "0x01"
                            THEN "0x" \o withdrawalCred.last40
                            ELSE "null",
      consensus |-> Zero,
      execution |-> Zero]

(***************************************************************************)
(* State.                                                                  *)
(***************************************************************************)
VARIABLES
  CONCURRENCY,      \* config.concurrency
  SLOT_INTERVAL_SECONDS, \* config.slot_interval_seconds
  startDate,        \* argument: what Math.floor(new Date(startDate +
                    \* 'T00:00:00Z').getTime() / 1000) evaluates to
  endDate,          \* argument: the same for endDate
  ids,              \* argument: the validator identifiers
  startTs,          \* line 173
  endTs,            \* line 174
  genesis,          \* line 186
  startSlot,        \* first slot of the range
  endSlot,          \* last slot of the range
  id,               \* position of the validator loop (line 200) in ids
  attempt,          \* retry's attempt counter, genesis and validator lookups
  lastError,        \* retry's lastError, genesis and validator lookups
  error,            \* the error getValidatorPayments rejects with ("none" if none)
  indicesSet,       \* tracked validator indices
  validators,       \* index -> record with the consensus, execution totals
  consensusTotals,  \* address -> total (keys appear when first credited)
  executionTotals,  \* address -> total
  processedSlots,   \* progress counter
  slot,             \* loop variable of the scan
  activePromises,   \* the current batch: one record per launched slot unit
                    \* (its field `last` is history: the 404 / 400 status its
                    \* block fetch has been answered, "none" if it never was)
  pc,               \* position of getValidatorPayments
  fixed,            \* TRUE: a request repeated for a slot gets the answer it got first
  seen,             \* in fixed mode: the answers given so far
  settled,          \* history: slot -> how its unit settled ("none" before)
  consensusApplied, \* history: slot -> times its withdrawal loop ran
  executionApplied, \* history: slot -> sequence of execution amounts credited
  sent,             \* history of the entry: whether the genesis request was
                    \* sent, the identifiers whose lookup was sent, how each
                    \* lookup ended, and the number of times the retry call
                    \* under way (or the last one) has invoked its function
  input,            \* the block the services return for slot 0 when it is drawn
                    \* from Inputs ("none": they return the fixture)
  provider,         \* findBlockByTimestamp: the chain behind its provider
  targetTimestamp,  \* findBlockByTimestamp: its argument
  low,              \* findBlockByTimestamp: its locals
  high,
  closestBlock,
  closestDiff,
  returned          \* findBlockByTimestamp: the value it resolves with

vars == << CONCURRENCY, SLOT_INTERVAL_SECONDS, startDate, endDate, ids,
           startTs, endTs, genesis, startSlot, endSlot, id, attempt,
           lastError, error, indicesSet, validators,
           consensusTotals, executionTotals, processedSlots, slot,
           activePromises, pc, fixed, seen, settled, consensusApplied,
           executionApplied, sent, input, provider, targetTimestamp, low,
           high, closestBlock, closestDiff, returned >>

\* the empty object {}
EmptyTotals == [k \in {} |-> Zero]

\* no error thrown: `kind` names the error, `last` the lastError.message that
\* retry's exhaustion error carries
NoError == [kind |-> "none", last |-> "none"]

\* the services answer with the fixture
NoInput == [kind |-> "none"]

\* the beacon service answers with the chain of tenths
Tenths == [kind |-> "tenths"]

\* blockData.data.message of the block of slot s: of the fixture, of the
\* chain of tenths, or, when a block is given as input, that block: proposed
\* by validator 5 with fee recipient 0xFEE, one withdrawal, one transaction
Message(s) ==
  CASE input.kind = "none" -> BeaconBlock(s)
    [] input.kind = "tenths" -> TenthsBlock(s)
    [] OTHER ->
         [proposer_index |-> 5,
          execution_payload |->
            << [block_number |-> 100 + s, fee_recipient |-> "0xFEE",
                withdrawals |-> << input.withdrawal >>] >>]

\* block.result of eth_getBlockByNumber(n, true)
ExecutionBlock(n) ==
  IF input.kind \in {"none", "tenths"} THEN ExecBlock(n)
  ELSE [baseFeePerGas |-> input.baseFeePerGas, transactions |-> << input.tx >>]

\* data.result.gasUsed of the receipt of transaction h
GasUsed(h) ==
  IF input.kind \in {"none", "tenths"} THEN ReceiptGasUsed(h) ELSE input.gasUsed

\* Infinity, and a finite number, as values of closestDiff
Infinity == [finite |-> FALSE, value |-> 0]
Finite(n) == [finite |-> TRUE, value |-> n]

\* findBlockByTimestamp is not running
searchFrame == << provider, targetTimestamp, low, high, closestBlock, closestDiff,
                 returned >>
IdleSearch ==
  /\ provider = [head |-> 0, timestamps |-> << >>]
  /\ targetTimestamp = 0
  /\ low = 0
  /\ high = 0
  /\ closestBlock = 0
  /\ closestDiff = Infinity
  /\ returned = 0

\* totalSlots = endSlot - startSlot + 1
totalSlots == endSlot - startSlot + 1

\* per request of a slot: the status it was answered first, and the body
NoAnswers ==
  [beacon |-> [s \in Slots |-> "none"],
   beaconBody |-> [s \in Slots |-> "none"],
   rpc |-> [s \in Slots |-> "none"],
   rpcBody |-> [s \in Slots |-> "none"],
   gas |-> [s \in Slots |-> [t \in 1 .. 2 |-> "none"]],
   gasBody |-> [s \in Slots |-> [t \in 1 .. 2 |-> "none"]]]

\* the tracked set and the validator records when the scan starts: the
\* identifiers "5" and "0xpk7" resolved
ScanIndices == {5, 7}

ScanValidators ==
  [i \in ScanIndices |-> NewValidator(ValidatorData(IF i = 5 THEN "5" ELSE "0xpk7"))]

\* the state when the scan starts (line 240), for a resolved range and a
\* resolved validator set
InitScan ==
  /\ CONCURRENCY \in 1 .. MaxConcurrency
  /\ startSlot \in Slots
  /\ endSlot \in Slots
  /\ startSlot <= endSlot
  /\ indicesSet = ScanIndices
  /\ validators = ScanValidators
  \* how the entry got there: slots of 12 seconds from genesis 0, both
  \* identifiers resolved at the first attempt
  /\ SLOT_INTERVAL_SECONDS = 12
  /\ genesis = 0
  /\ startTs = 12 * startSlot
  /\ endTs = 12 * endSlot
  /\ startDate = [nan |-> FALSE, seconds |-> startTs]
  /\ endDate = [nan |-> FALSE, seconds |-> endTs]
  /\ ids = << "5", "0xpk7" >>
  /\ id = 2
  /\ attempt = 1
  /\ lastError = "none"
  /\ error = NoError
  /\ sent = [genesis |-> TRUE, looked |-> {1, 2}, outcome |-> << "ok", "ok" >>,
             calls |-> 1]
  /\ consensusTotals = EmptyTotals
  /\ executionTotals = EmptyTotals
  /\ processedSlots = 0
  /\ slot = startSlot
  /\ activePromises = << >>
  /\ pc = "loop"
  /\ seen = NoAnswers
  /\ settled = [s \in Slots |-> "none"]
  /\ consensusApplied = [s \in Slots |-> 0]
  /\ executionApplied = [s \in Slots |-> << >>]
  /\ IdleSearch

Init == InitScan /\ input = NoInput /\ fixed = FALSE

\* the scan of the chain of tenths; a request repeated gets the answer it got
\* first
InitFixed == InitScan /\ input = Tenths /\ fixed = TRUE

(***************************************************************************)
(* The main function: the batch loop, lines 240-361.                       *)
(***************************************************************************)
\* a slot unit as pushed at line 248: retry() has called fn, which has sent
\* the beacon block fetch (attempt 1)
NewUnit(s) ==
  [slot |-> s, state |-> "pending", pc |-> "block", attempt |-> 1,
   inner |-> 0, tx |-> 0, prioritySum |-> 0, last |-> "none"]

\* line 342: activePromises.length >= CONCURRENCY
BatchFullOffByOne(len, limit) == len > limit

BatchFull(len, limit) == len >= limit

\* Promise.all: resumes as soon as one promise is rejected
AnyRejectedOrAllFulfilled(promises) ==
  \/ \E i \in 1 .. Len(promises) : promises[i].state = "rejected"
  \/ \A i \in 1 .. Len(promises) : promises[i].state = "fulfilled"

\* lines 343, 351: await Promise.allSettled(activePromises) resumes once every
\* promise of the batch is settled, fulfilled or rejected
AllSettled(promises) ==
  \A i \in 1 .. Len(promises) : promises[i].state # "pending"

\* the slot units run only while the main function is suspended
Awaiting == pc \in {"awaitBatch", "awaitRemaining"}

entryFrame == << SLOT_INTERVAL_SECONDS, startDate, endDate, ids, startTs, endTs,
                 genesis, id, attempt, lastError, error, sent, input >>
scanFrame == << CONCURRENCY, startSlot, endSlot, indicesSet, fixed, entryFrame,
               searchFrame >>
creditFrame == << validators, consensusTotals, executionTotals,
                  consensusApplied, executionApplied >>

\* lines 241-342: one iteration of the for loop up to the batch check
Launch ==
  /\ pc = "loop"
  /\ slot <= endSlot
  /\ activePromises' = Append(activePromises, NewUnit(slot))
  /\ IF BatchFull(Len(activePromises) + 1, CONCURRENCY)
       THEN pc' = "awaitBatch" /\ slot' = slot
       ELSE pc' = "loop" /\ slot' = slot + 1
  /\ UNCHANGED << scanFrame, creditFrame, processedSlots, seen, settled >>

\* the await of line 343 left out: the loop goes on at once
BatchSettledNoWait ==
  /\ pc = "awaitBatch"
  /\ processedSlots' = processedSlots + Len(activePromises)
  /\ activePromises' = << >>
  /\ slot' = slot + 1
  /\ pc' = "loop"
  /\ UNCHANGED << scanFrame, creditFrame, seen, settled >>

\* line 241 without slot++ after a full batch: the same slot is taken again
BatchSettledSameSlot ==
  /\ pc = "awaitBatch"
  /\ AllSettled(activePromises)
  /\ processedSlots' = processedSlots + Len(activePromises)
  /\ activePromises' = << >>
  /\ slot' = slot
  /\ pc' = "loop"
  /\ UNCHANGED << scanFrame, creditFrame, seen, settled >>

\* lines 343-346: the batch has settled; count it, empty it, next iteration
BatchSettled ==
  /\ pc = "awaitBatch"
  /\ AllSettled(activePromises)
  /\ processedSlots' = processedSlots + Len(activePromises)
  /\ activePromises' = << >>
  /\ slot' = slot + 1
  /\ pc' = "loop"
  /\ UNCHANGED << scanFrame, creditFrame, seen, settled >>

\* lines 241, 350: the loop ends; await what is left of the last batch
LoopExit ==
  /\ pc = "loop"
  /\ slot > endSlot
  /\ pc' = IF Len(activePromises) > 0 THEN "awaitRemaining" ELSE "done"
  /\ UNCHANGED << scanFrame, creditFrame, processedSlots, slot,
                  activePromises, seen, settled >>

\* line 352 left out: the last batch is not counted
RemainingSettledNoCount ==
  /\ pc = "awaitRemaining"
  /\ AllSettled(activePromises)
  /\ pc' = "done"
  /\ UNCHANGED << scanFrame, creditFrame, processedSlots, slot, activePromises,
                  seen, settled >>

\* lines 351-361: the last batch has settled; count it and return the totals
RemainingSettled ==
  /\ pc = "awaitRemaining"
  /\ AllSettled(activePromises)
  /\ processedSlots' = processedSlots + Len(activePromises)
  /\ pc' = "done"
  /\ UNCHANGED << scanFrame, creditFrame, slot, activePromises, seen, settled >>

(***************************************************************************)
(* The slot unit: retry(async () => { ... }, 4, ...), lines 248-340, and   *)
(* the retry wrappers inside it.                                           *)
(***************************************************************************)
\* the answers a request can get: any, or in fixed mode the one it got first
Answers(all, first) == IF fixed /\ first # "none" THEN {first} ELSE all

\* the unit's function returns: retry returns its result (lines 106-110)
Fulfilled(u) ==
  [u EXCEPT !.state = "fulfilled", !.pc = "end", !.inner = 0, !.tx = 0,
            !.prioritySum = 0]

\* the unit's function throws: caught and rethrown at 336-338, caught by
\* retry at 111, which starts the backoff sleep of line 115
Thrown(u) ==
  [u EXCEPT !.pc = "sleep", !.inner = 0, !.tx = 0, !.prioritySum = 0]

\* lines 253, 258: the statuses that end the unit without retry
IsTerminalSkipNone(status) == FALSE

IsTerminalSkip(status) == status \in {"404", "400"}

\* lines 250-264: the beacon block fetch of unit i resolves with the response's
\* status and headers (the timer of fetchWithTimeout is cleared, line 89); on
\* 200 the unit starts reading the body and rests at the await of line 264
BlockResponse(i) ==
  /\ Awaiting
  /\ i \in 1 .. Len(activePromises)
  /\ LET u == activePromises[i] IN
     /\ u.state = "pending"
     /\ u.pc = "block"
     /\ \E r \in Answers(BeaconOutcomes, seen.beacon[u.slot]) :
          \* history: the unit remembers a 404 / 400 answer to its block fetch
          LET w == [u EXCEPT !.last = IF r \in {"404", "400"} THEN r ELSE @] IN
          /\ seen' = IF fixed THEN [seen EXCEPT !.beacon[u.slot] = r] ELSE seen
          /\ CASE r = "200" ->
                    /\ activePromises' = [activePromises EXCEPT ![i] =
                         [u EXCEPT !.pc = "blockBody"]]
                    /\ UNCHANGED settled
               [] IsTerminalSkip(r) ->
                    /\ activePromises' = [activePromises EXCEPT ![i] = Fulfilled(w)]
                    /\ settled' = [settled EXCEPT ![u.slot] = "fulfilled"]
               [] OTHER ->
                    /\ activePromises' = [activePromises EXCEPT ![i] = Thrown(w)]
                    /\ UNCHANGED settled
  /\ UNCHANGED << scanFrame, creditFrame, processedSlots, slot, pc >>

\* lines 288-291 left out: a missing execution payload is not skipped
BlockBodyNoPayloadCheck(i) ==
  /\ Awaiting
  /\ i \in 1 .. Len(activePromises)
  /\ LET u == activePromises[i] IN
     /\ u.state = "pending"
     /\ u.pc = "blockBody"
     /\ \E r \in Answers(JsonBodies, seen.beaconBody[u.slot]) :
          /\ seen' = IF fixed THEN [seen EXCEPT !.beaconBody[u.slot] = r] ELSE seen
          /\ IF r = "unreadable"
               THEN /\ activePromises' = [activePromises EXCEPT ![i] = Thrown(u)]
                    /\ UNCHANGED << creditFrame, settled >>
               ELSE LET message == Message(u.slot)
                        st == ProcessWithdrawals(WithdrawalsOf(message), 1, indicesSet,
                                [validators |-> validators,
                                 consensusTotals |-> consensusTotals])
                    IN /\ validators' = st.validators
                       /\ consensusTotals' = st.consensusTotals
                       /\ consensusApplied' = [consensusApplied EXCEPT ![u.slot] = @ + 1]
                       /\ UNCHANGED << executionTotals, executionApplied >>
                       /\ IF message.proposer_index \in indicesSet
                            THEN IF Len(message.execution_payload) > 0
                                   THEN /\ activePromises' = [activePromises EXCEPT ![i] =
                                             [u EXCEPT !.pc = "rpc", !.inner = 1]]
                                        /\ UNCHANGED settled
                                   ELSE \* payload.block_number throws a TypeError
                                        /\ activePromises' = [activePromises EXCEPT ![i] =
                                             Thrown(u)]
                                        /\ UNCHANGED settled
                            ELSE /\ activePromises' = [activePromises EXCEPT ![i] = Fulfilled(u)]
                                 /\ settled' = [settled EXCEPT ![u.slot] = "fulfilled"]
  /\ UNCHANGED << scanFrame, processedSlots, slot, pc >>

\* lines 264-306: the body of the beacon block of unit i has been read and
\* parsed (or the read has failed): the withdrawals are credited, and for a
\* tracked proposer the execution block fetch is sent
BlockBody(i) ==
  /\ Awaiting
  /\ i \in 1 .. Len(activePromises)
  /\ LET u == activePromises[i] IN
     /\ u.state = "pending"
     /\ u.pc = "blockBody"
     /\ \E r \in Answers(JsonBodies, seen.beaconBody[u.slot]) :
          /\ seen' = IF fixed THEN [seen EXCEPT !.beaconBody[u.slot] = r] ELSE seen
          /\ IF r = "unreadable"
               THEN \* blockRes.json() rejects: caught and rethrown at 336-338
                    /\ activePromises' = [activePromises EXCEPT ![i] = Thrown(u)]
                    /\ UNCHANGED << creditFrame, settled >>
               ELSE LET message == Message(u.slot)
                        st == ProcessWithdrawals(WithdrawalsOf(message), 1, indicesSet,
                                [validators |-> validators,
                                 consensusTotals |-> consensusTotals])
                    IN /\ validators' = st.validators
                       /\ consensusTotals' = st.consensusTotals
                       /\ consensusApplied' = [consensusApplied EXCEPT ![u.slot] = @ + 1]
                       /\ UNCHANGED << executionTotals, executionApplied >>
                       /\ IF message.proposer_index \in indicesSet
                               /\ Len(message.execution_payload) > 0
                            THEN \* line 302: the execution block fetch is sent
                                 /\ activePromises' = [activePromises EXCEPT ![i] =
                                      [u EXCEPT !.pc = "rpc", !.inner = 1]]
                                 /\ UNCHANGED settled
                            ELSE \* lines 285, 288-291: nothing more to do
                                 /\ activePromises' = [activePromises EXCEPT ![i] = Fulfilled(u)]
                                 /\ settled' = [settled EXCEPT ![u.slot] = "fulfilled"]
  /\ UNCHANGED << scanFrame, processedSlots, slot, pc >>

\* lines 104, 115-118: the backoff sleep of unit i ends; next attempt, or the
\* exhaustion error
RetryWake(i) ==
  /\ Awaiting
  /\ i \in 1 .. Len(activePromises)
  /\ LET u == activePromises[i] IN
     /\ u.state = "pending"
     /\ u.pc = "sleep"
     /\ IF u.attempt + 1 <= RETRIES + 1
          THEN /\ activePromises' = [activePromises EXCEPT ![i] =
                    [u EXCEPT !.attempt = @ + 1, !.pc = "block"]]
               /\ UNCHANGED settled
          ELSE /\ activePromises' = [activePromises EXCEPT ![i] =
                    [u EXCEPT !.state = "rejected", !.pc = "end"]]
               /\ settled' = [settled EXCEPT ![u.slot] = "rejected"]
  /\ UNCHANGED << scanFrame, creditFrame, processedSlots, slot, pc, seen >>

\* the execution payload of the block of unit u (line 287)
PayloadOf(u) == Message(u.slot).execution_payload[1]

\* b.transactions of the execution block of unit u (lines 316, 320)
TransactionsOf(u) == ExecutionBlock(PayloadOf(u).block_number).transactions

\* lines 332-334, then the unit returns: credit the block's tip revenue to the
\* proposer and to the fee recipient
ExecutionCredit(i, u, sum) ==
  LET proposer == Message(u.slot).proposer_index
      feeRecipient == toLowerCase(PayloadOf(u).fee_recipient)
      executionAmount == ExecutionAmount(sum)
  IN /\ validators' = CreditExecution(validators, proposer, executionAmount)
     /\ executionTotals' = CreditAddress(executionTotals, feeRecipient, executionAmount)
     /\ executionApplied' = [executionApplied EXCEPT ![u.slot] = Append(@, sum)]
     /\ activePromises' = [activePromises EXCEPT ![i] = Fulfilled(u)]
     /\ settled' = [settled EXCEPT ![u.slot] = "fulfilled"]
     /\ UNCHANGED << consensusTotals, consensusApplied >>

\* line 320: the for loop over the transactions goes on after transaction
\* u.tx, with prioritySum = sum: the next receipt request (line 325 calls
\* getGasUsed, which sends it at line 136), or the credit
NextTransaction(i, u, sum) ==
  IF u.tx < Len(TransactionsOf(u))
    THEN /\ activePromises' = [activePromises EXCEPT ![i] =
              [u EXCEPT !.pc = "gas", !.tx = @ + 1, !.inner = 1, !.prioritySum = sum]]
         /\ UNCHANGED << creditFrame, settled >>
    ELSE ExecutionCredit(i, u, sum)

\* lines 302-310: the execution block fetch of unit i resolves with the
\* response's status and headers; on 200 the unit starts reading the body and
\* rests at the await of line 310
RpcResponse(i) ==
  /\ Awaiting
  /\ i \in 1 .. Len(activePromises)
  /\ LET u == activePromises[i] IN
     /\ u.state = "pending"
     /\ u.pc = "rpc"
     /\ \E r \in Answers(RpcOutcomes, seen.rpc[u.slot]) :
          /\ seen' = IF fixed THEN [seen EXCEPT !.rpc[u.slot] = r] ELSE seen
          /\ activePromises' = [activePromises EXCEPT ![i] =
               CASE r = "reject" -> [u EXCEPT !.pc = "rpcSleep"]  \* retry of 302
                 [] r = "500" -> Thrown(u)                        \* lines 307-309
                 [] OTHER -> [u EXCEPT !.pc = "rpcBody"]]
  /\ UNCHANGED << scanFrame, creditFrame, processedSlots, slot, pc, settled >>

\* lines 310-325: the body of the execution block of unit i has been read and
\* parsed, or the read has failed
RpcBody(i) ==
  /\ Awaiting
  /\ i \in 1 .. Len(activePromises)
  /\ LET u == activePromises[i] IN
     /\ u.state = "pending"
     /\ u.pc = "rpcBody"
     /\ \E r \in Answers(RpcBodies, seen.rpcBody[u.slot]) :
          /\ seen' = IF fixed THEN [seen EXCEPT !.rpcBody[u.slot] = r] ELSE seen
          /\ CASE r = "unreadable" ->
                    \* rpcRes.json() rejects: caught and rethrown at 336-338
                    /\ activePromises' = [activePromises EXCEPT ![i] = Thrown(u)]
                    /\ UNCHANGED << creditFrame, settled >>
               [] r \in {"error", "null"} ->
                    \* lines 311-314
                    /\ activePromises' = [activePromises EXCEPT ![i] = Fulfilled(u)]
                    /\ settled' = [settled EXCEPT ![u.slot] = "fulfilled"]
                    /\ UNCHANGED creditFrame
               [] OTHER ->
                    NextTransaction(i, [u EXCEPT !.tx = 0], 0)
  /\ UNCHANGED << scanFrame, processedSlots, slot, pc >>

\* retry of line 302: the backoff sleep ends; next fetch, or the exhaustion
\* error, which the unit's function rethrows (336-338)
RpcRetryWake(i) ==
  /\ Awaiting
  /\ i \in 1 .. Len(activePromises)
  /\ LET u == activePromises[i] IN
     /\ u.state = "pending"
     /\ u.pc = "rpcSleep"
     /\ activePromises' = [activePromises EXCEPT ![i] =
          IF u.inner + 1 <= RETRIES + 1
            THEN [u EXCEPT !.inner = @ + 1, !.pc = "rpc"]
            ELSE Thrown(u)]
  /\ UNCHANGED << scanFrame, creditFrame, processedSlots, slot, pc, seen, settled >>

\* getGasUsed, lines 136-144: the receipt request of the current transaction
\* of unit i resolves with the response's status and headers; on 200 the
\* body is read, the await of line 144
GasResponse(i) ==
  /\ Awaiting
  /\ i \in 1 .. Len(activePromises)
  /\ LET u == activePromises[i] IN
     /\ u.state = "pending"
     /\ u.pc = "gas"
     /\ \E r \in Answers(GasOutcomes, seen.gas[u.slot][u.tx]) :
          /\ seen' = IF fixed THEN [seen EXCEPT !.gas[u.slot][u.tx] = r] ELSE seen
          /\ activePromises' = [activePromises EXCEPT ![i] =
               IF r = "200" THEN [u EXCEPT !.pc = "gasBody"]
                            ELSE [u EXCEPT !.pc = "gasSleep"]]
  /\ UNCHANGED << scanFrame, creditFrame, processedSlots, slot, pc, settled >>

\* getGasUsed, lines 144-152, and lines 325-326: the body of the receipt has
\* been read and parsed, or the read has failed
GasBody(i) ==
  /\ Awaiting
  /\ i \in 1 .. Len(activePromises)
  /\ LET u == activePromises[i] IN
     /\ u.state = "pending"
     /\ u.pc = "gasBody"
     /\ \E r \in Answers(GasBodies, seen.gasBody[u.slot][u.tx]) :
          /\ seen' = IF fixed THEN [seen EXCEPT !.gasBody[u.slot][u.tx] = r] ELSE seen
          /\ CASE r = "result" ->
                    LET tx == TransactionsOf(u)[u.tx]
                        baseFee == ExecutionBlock(PayloadOf(u).block_number).baseFeePerGas
                        gasUsed == GasUsed(tx.hash)
                    IN NextTransaction(i, u, u.prioritySum + Tip(tx, baseFee) * gasUsed)
               [] r = "null" ->
                    \* line 148: no receipt, gas 0n
                    NextTransaction(i, u, u.prioritySum)
               [] OTHER ->
                    \* res.json() rejects, or lines 145-147: retry catches
                    /\ activePromises' = [activePromises EXCEPT ![i] =
                         [u EXCEPT !.pc = "gasSleep"]]
                    /\ UNCHANGED << creditFrame, settled >>
  /\ UNCHANGED << scanFrame, processedSlots, slot, pc >>

\* retry inside getGasUsed: the backoff sleep ends; next request, or the
\* exhaustion error, which lines 327-329 catch: the transaction is left out
GasRetryWake(i) ==
  /\ Awaiting
  /\ i \in 1 .. Len(activePromises)
  /\ LET u == activePromises[i] IN
     /\ u.state = "pending"
     /\ u.pc = "gasSleep"
     /\ IF u.inner + 1 <= RETRIES + 1
          THEN /\ activePromises' = [activePromises EXCEPT ![i] =
                    [u EXCEPT !.inner = @ + 1, !.pc = "gas"]]
               /\ UNCHANGED << creditFrame, settled >>
          ELSE NextTransaction(i, u, u.prioritySum)
  /\ UNCHANGED << scanFrame, processedSlots, slot, pc, seen >>

\* a request of a slot unit is answered, or one of its backoff sleeps ends
Responding ==
  \E i \in 1 .. MaxConcurrency :
    \/ BlockResponse(i)
    \/ RetryWake(i)
    \/ RpcResponse(i)
    \/ RpcRetryWake(i)
    \/ GasResponse(i)
    \/ GasRetryWake(i)

\* the read of a response body of a slot unit ends
ReadingBody ==
  \E i \in 1 .. MaxConcurrency :
    \/ BlockBody(i)
    \/ RpcBody(i)
    \/ GasBody(i)

UnitStep == Responding \/ ReadingBody

Next ==
  \/ Launch
  \/ BatchSettled
  \/ LoopExit
  \/ RemainingSettled
  \/ UnitStep

Spec == Init /\ [][Next]_vars

SpecFixed == InitFixed /\ [][Next]_vars

(***************************************************************************)
(* The entry of getValidatorPayments, lines 171-240: the dates, the        *)
(* genesis request, the slot range and the validator lookups.  The scan    *)
(* starts where it ends, with pc = "loop".                                 *)
(***************************************************************************)
\* the state when getValidatorPayments is called
InitEntry ==
  /\ CONCURRENCY \in 1 .. MaxConcurrency
  /\ SLOT_INTERVAL_SECONDS \in SlotIntervals
  /\ startDate \in Dates
  /\ endDate \in Dates
  /\ ids \in IdLists
  /\ startTs = 0
  /\ endTs = 0
  /\ genesis = 0
  /\ startSlot = 0
  /\ endSlot = 0
  /\ id = 0
  /\ attempt = 0
  /\ lastError = "none"
  /\ error = NoError
  /\ indicesSet = {}
  /\ validators = << >>
  /\ consensusTotals = EmptyTotals
  /\ executionTotals = EmptyTotals
  /\ processedSlots = 0
  /\ slot = 0
  /\ activePromises = << >>
  /\ pc = "start"
  /\ fixed = FALSE
  /\ seen = NoAnswers
  /\ settled = [s \in Slots |-> "none"]
  /\ consensusApplied = [s \in Slots |-> 0]
  /\ executionApplied = [s \in Slots |-> << >>]
  /\ sent = [genesis |-> FALSE,
             looked |-> {},
             outcome |-> [k \in 1 .. Len(ids) |-> "none"],
             calls |-> 0]
  /\ input = NoInput
  /\ IdleSearch

argumentFrame == << CONCURRENCY, SLOT_INTERVAL_SECONDS, startDate, endDate, ids,
                   searchFrame >>
idleScanFrame == << consensusTotals, executionTotals, processedSlots, activePromises,
                   fixed, seen, settled, consensusApplied, executionApplied, input >>

\* lines 362-365: getValidatorPayments rejects with the error thrown
Fatal(kind, last) ==
  /\ pc' = "failed"
  /\ error' = [kind |-> kind, last |-> last]

\* lines 176-178 left out: no NaN check
ParseDatesNoCheck ==
  /\ pc = "start"
  /\ startTs' = startDate.seconds
  /\ endTs' = endDate.seconds
  /\ pc' = "genesis"
  /\ attempt' = 1
  /\ sent' = [sent EXCEPT !.genesis = TRUE, !.calls = 1]
  /\ UNCHANGED error
  /\ UNCHANGED << argumentFrame, idleScanFrame, genesis, startSlot, endSlot, id,
                  lastError, indicesSet, validators, slot >>

\* lines 173-181: the timestamps, the NaN check, the genesis request
ParseDates ==
  /\ pc = "start"
  /\ startTs' = startDate.seconds
  /\ endTs' = endDate.seconds
  /\ IF startDate.nan \/ endDate.nan
       THEN /\ Fatal("InvalidDate", "none")
            /\ UNCHANGED << attempt, sent >>
       ELSE /\ pc' = "genesis"
            /\ attempt' = 1
            /\ sent' = [sent EXCEPT !.genesis = TRUE, !.calls = 1]
            /\ UNCHANGED error
  /\ UNCHANGED << argumentFrame, idleScanFrame, genesis, startSlot, endSlot, id,
                  lastError, indicesSet, validators, slot >>

\* lines 223-225 left out: the scan starts even when no validator was resolved
NextIdentifierNoCheck(k, set, first, log) ==
  /\ lastError' = "none"
  /\ IF k < Len(ids)
       THEN /\ id' = k + 1
            /\ attempt' = 1
            /\ pc' = "validator"
            /\ sent' = [log EXCEPT !.looked = @ \cup {k + 1}, !.calls = 1]
            /\ UNCHANGED << error, slot >>
       ELSE /\ id' = k
            /\ attempt' = attempt
            /\ sent' = log
            /\ pc' = "loop"
            /\ slot' = first
            /\ UNCHANGED error

\* the for loop of line 200 goes on after the identifier at position k, with
\* the tracked set `set` and the request log `log`: the next lookup is sent
\* (line 202), or the loop is over: lines 223-240, the scan starts at slot
\* `first` unless no validator was resolved
NextIdentifier(k, set, first, log) ==
  /\ lastError' = "none"
  /\ IF k < Len(ids)
       THEN /\ id' = k + 1
            /\ attempt' = 1
            /\ pc' = "validator"
            /\ sent' = [log EXCEPT !.looked = @ \cup {k + 1}, !.calls = 1]
            /\ UNCHANGED << error, slot >>
       ELSE /\ id' = k
            /\ attempt' = attempt
            /\ sent' = log
            /\ IF set = {}
                 THEN /\ Fatal("NoValidators", "none")
                      /\ UNCHANGED slot
                 ELSE /\ pc' = "loop"
                      /\ slot' = first
                      /\ UNCHANGED error

\* lines 181-185: the genesis fetch resolves with the response's status and
\* headers; on 200 the body is read, the await of line 185
GenesisResponse ==
  /\ pc = "genesis"
  /\ \E r \in GenesisOutcomes :
       CASE r \in Rejections ->
              \* retry, lines 111-115
              /\ lastError' = r
              /\ pc' = "genesisSleep"
              /\ UNCHANGED error
         [] r = "500" ->
              \* lines 182-184
              /\ Fatal("GenesisHttp", "none")
              /\ UNCHANGED lastError
         [] OTHER ->
              /\ pc' = "genesisBody"
              /\ UNCHANGED << lastError, error >>
  /\ UNCHANGED << argumentFrame, idleScanFrame, startTs, endTs, genesis, startSlot,
                  endSlot, id, attempt, slot, sent, indicesSet, validators >>

\* lines 185-202: the body of the genesis response has been read and parsed
\* (or the read has failed): the slot range, then the first lookup
GenesisBody ==
  /\ pc = "genesisBody"
  /\ \E r \in JsonBodies :
       IF r = "unreadable"
         THEN \* genesisRes.json() rejects: the catch of line 362
              /\ Fatal("GenesisBody", "none")
              /\ UNCHANGED << genesis, startSlot, endSlot, id, attempt, lastError,
                              slot, sent >>
         ELSE \E g \in GenesisTimes :
                LET first == StartSlotOf(startTs, g, SLOT_INTERVAL_SECONDS)
                    last == EndSlotOf(endTs, g, SLOT_INTERVAL_SECONDS)
                IN /\ genesis' = g
                   /\ startSlot' = first
                   /\ endSlot' = last
                   /\ IF first > last
                        THEN \* lines 193-195
                             /\ Fatal("StartAfterEnd", "none")
                             /\ UNCHANGED << id, attempt, lastError, slot, sent >>
                        ELSE NextIdentifier(0, {}, first, sent)
  /\ UNCHANGED << argumentFrame, idleScanFrame, startTs, endTs, indicesSet, validators >>

\* attempt <= retries instead of attempt <= retries + 1
GenesisRetryWakeShort ==
  /\ pc = "genesisSleep"
  /\ IF attempt + 1 <= RETRIES
       THEN /\ attempt' = attempt + 1
            /\ pc' = "genesis"
            /\ sent' = [sent EXCEPT !.calls = @ + 1]
            /\ UNCHANGED error
       ELSE /\ Fatal("Exhausted", lastError)
            /\ UNCHANGED << attempt, sent >>
  /\ UNCHANGED << argumentFrame, idleScanFrame, startTs, endTs, genesis, startSlot,
                  endSlot, id, lastError, indicesSet, validators, slot >>

\* retry of line 181: the backoff sleep ends; next fetch, or the exhaustion
\* error of line 118
GenesisRetryWake ==
  /\ pc = "genesisSleep"
  /\ IF attempt + 1 <= RETRIES + 1
       THEN /\ attempt' = attempt + 1
            /\ pc' = "genesis"
            /\ sent' = [sent EXCEPT !.calls = @ + 1]
            /\ UNCHANGED error
       ELSE /\ Fatal("Exhausted", lastError)
            /\ UNCHANGED << attempt, sent >>
  /\ UNCHANGED << argumentFrame, idleScanFrame, startTs, endTs, genesis, startSlot,
                  endSlot, id, lastError, indicesSet, validators, slot >>

\* lines 202-207: the lookup of ids[id] resolves with the response's status
\* and headers; on 200 the body is read, the await of line 207
ValidatorResponse ==
  /\ pc = "validator"
  /\ \E r \in ValidatorOutcomes :
       CASE r \in Rejections ->
              /\ lastError' = r
              /\ pc' = "validatorSleep"
              /\ UNCHANGED << id, attempt, error, slot, sent >>
         [] r = "200" ->
              /\ pc' = "validatorBody"
              /\ UNCHANGED << id, attempt, lastError, error, slot, sent >>
         [] OTHER ->
              \* lines 203-206
              NextIdentifier(id, indicesSet, startSlot,
                             [sent EXCEPT !.outcome[id] = r])
  /\ UNCHANGED << argumentFrame, idleScanFrame, startTs, endTs, genesis, startSlot,
                  endSlot, indicesSet, validators >>

\* the record stored per identifier (its position in ids) instead of per index
ValidatorBodyByIdentifier ==
  /\ pc = "validatorBody"
  /\ \E r \in JsonBodies :
       IF r = "unreadable"
         THEN /\ NextIdentifier(id, indicesSet, startSlot,
                                [sent EXCEPT !.outcome[id] = "unreadable"])
              /\ UNCHANGED << indicesSet, validators >>
         ELSE LET valData == ValidatorData(ids[id])
                  index == valData.index
              IN /\ validators' = (id :> NewValidator(valData)) @@ validators
                 /\ indicesSet' = indicesSet \cup {index}
                 /\ NextIdentifier(id, indicesSet \cup {index}, startSlot,
                                   [sent EXCEPT !.outcome[id] = "ok"])
  /\ UNCHANGED << argumentFrame, idleScanFrame, startTs, endTs, genesis, startSlot,
                  endSlot >>

\* lines 207-221: the body of the lookup of ids[id] has been read and parsed:
\* the validator is registered; or the read has failed, which lines 218-220
\* catch: the identifier is left out
ValidatorBody ==
  /\ pc = "validatorBody"
  /\ \E r \in JsonBodies :
       IF r = "unreadable"
         THEN /\ NextIdentifier(id, indicesSet, startSlot,
                                [sent EXCEPT !.outcome[id] = "unreadable"])
              /\ UNCHANGED << indicesSet, validators >>
         ELSE LET valData == ValidatorData(ids[id])
                  index == valData.index
              IN /\ validators' = (index :> NewValidator(valData)) @@ validators
                 /\ indicesSet' = indicesSet \cup {index}
                 /\ NextIdentifier(id, indicesSet \cup {index}, startSlot,
                                   [sent EXCEPT !.outcome[id] = "ok"])
  /\ UNCHANGED << argumentFrame, idleScanFrame, startTs, endTs, genesis, startSlot,
                  endSlot >>

\* no try / catch around the lookup: the exhaustion error is fatal
ValidatorRetryWakeFatal ==
  /\ pc = "validatorSleep"
  /\ IF attempt + 1 <= RETRIES + 1
       THEN /\ attempt' = attempt + 1
            /\ pc' = "validator"
            /\ sent' = [sent EXCEPT !.calls = @ + 1]
            /\ UNCHANGED << id, lastError, error, slot >>
       ELSE /\ Fatal("Exhausted", lastError)
            /\ UNCHANGED << id, attempt, lastError, slot, sent >>
  /\ UNCHANGED << argumentFrame, idleScanFrame, startTs, endTs, genesis, startSlot,
                  endSlot, indicesSet, validators >>

\* retry of line 202: the backoff sleep ends; next fetch, or the exhaustion
\* error, which lines 218-220 catch: the identifier is left out
ValidatorRetryWake ==
  /\ pc = "validatorSleep"
  /\ IF attempt + 1 <= RETRIES + 1
       THEN /\ attempt' = attempt + 1
            /\ pc' = "validator"
            /\ sent' = [sent EXCEPT !.calls = @ + 1]
            /\ UNCHANGED << id, lastError, error, slot >>
       ELSE NextIdentifier(id, indicesSet, startSlot,
                           [sent EXCEPT !.outcome[id] = "exhausted"])
  /\ UNCHANGED << argumentFrame, idleScanFrame, startTs, endTs, genesis, startSlot,
                  endSlot, indicesSet, validators >>

\* the entry, then the loop of the scan up to its first await
NextEntry ==
  \/ ParseDates
  \/ GenesisResponse
  \/ GenesisBody
  \/ GenesisRetryWake
  \/ ValidatorResponse
  \/ ValidatorBody
  \/ ValidatorRetryWake
  \/ Launch
  \/ LoopExit

SpecEntry == InitEntry /\ [][NextEntry]_vars

(***************************************************************************)
(* The whole of getValidatorPayments, lines 171-366: the entry followed by *)
(* the scan, for one day's worth of slots of two identifiers of the same   *)
(* validator.                                                              *)
(***************************************************************************)
\* the identifier lists of the whole run: none, or the index and the public
\* key of validator 5
ProgramIdLists == {<< >>, << "5", "0xpk5" >>}

\* the state when getValidatorPayments is called with a start date that does
\* not parse or denotes instant 0, and an end date one slot of 12 seconds
\* later at most: the range has two slots at most, which a batch of two holds
InitProgram ==
  /\ InitEntry
  /\ CONCURRENCY <= 2
  /\ SLOT_INTERVAL_SECONDS = 12
  /\ startDate.seconds = 0
  /\ ~endDate.nan
  /\ endDate.seconds \in {0, 12}
  /\ ids \in ProgramIdLists

\* a request is answered or a backoff sleep ends, and the function goes on to
\* its next await
Settling ==
  \/ ParseDates
  \/ GenesisResponse
  \/ GenesisRetryWake
  \/ ValidatorResponse
  \/ ValidatorRetryWake
  \/ Launch
  \/ BatchSettled
  \/ LoopExit
  \/ RemainingSettled
  \/ Responding

NextProgram ==
  \/ Settling
  \/ GenesisBody
  \/ ValidatorBody
  \/ ReadingBody

SpecProgram == InitProgram /\ [][NextProgram]_vars

\* every pending request settles (fetchWithTimeout aborts it after
\* request_timeout_ms at the latest, until the response's headers are there:
\* line 89 clears the timer), every backoff sleep ends, and the event loop
\* runs every continuation that is ready; nothing bounds the read of a
\* response body (res.json(), lines 144, 185, 207, 264, 310)
SpecProgramFair == SpecProgram /\ WF_vars(Settling)

(***************************************************************************)
(* The scan of one slot whose block is drawn from the blocks the services  *)
(* can return: one withdrawal, one transaction, proposed by validator 5    *)
(* with fee recipient 0xFEE.  It exercises the withdrawal loop (lines      *)
(* 271-282) and the tip sum with its credit (lines 316-334) on every       *)
(* amount and fee of the bounds.                                           *)
(***************************************************************************)
\* the state when the scan of the range [0, 0] starts, the block of slot 0
\* being the input; a request repeated gets the answer it got first
InitAmounts ==
  /\ input \in Inputs
  /\ CONCURRENCY \in 1 .. MaxConcurrency
  /\ startSlot = 0
  /\ endSlot = 0
  /\ slot = 0
  /\ pc = "loop"
  /\ indicesSet = {5, 7}
  /\ validators = [i \in {5, 7} |->
                     NewValidator(ValidatorData(IF i = 5 THEN "5" ELSE "0xpk7"))]
  /\ SLOT_INTERVAL_SECONDS = 12
  /\ genesis = 0
  /\ startTs = 0
  /\ endTs = 0
  /\ startDate = [nan |-> FALSE, seconds |-> 0]
  /\ endDate = [nan |-> FALSE, seconds |-> 0]
  /\ ids = << "5", "0xpk7" >>
  /\ id = 2
  /\ attempt = 1
  /\ lastError = "none"
  /\ error = NoError
  /\ sent = [genesis |-> TRUE, looked |-> {1, 2}, outcome |-> << "ok", "ok" >>,
             calls |-> 1]
  /\ consensusTotals = EmptyTotals
  /\ executionTotals = EmptyTotals
  /\ processedSlots = 0
  /\ activePromises = << >>
  /\ fixed = TRUE
  /\ seen = NoAnswers
  /\ settled = [s \in Slots |-> "none"]
  /\ consensusApplied = [s \in Slots |-> 0]
  /\ executionApplied = [s \in Slots |-> << >>]
  /\ IdleSearch

SpecAmounts == InitAmounts /\ [][Next]_vars

(***************************************************************************)
(* findBlockByTimestamp(provider, targetTimestamp), part_000 lines 98-128: *)
(* the binary search of the block whose timestamp is closest to a target.  *)
(***************************************************************************)
\* block.timestamp
Stamps == 0 .. MaxStamp

\* the chains behind the provider: blocks 1 .. head, each with a timestamp
\* greater than its parent's
Chains ==
  UNION {{[head |-> n, timestamps |-> t] :
            t \in {f \in [1 .. n -> Stamps] :
                     \A b \in 1 .. (n - 1) : f[b] < f[b + 1]}} : n \in 1 .. MaxHead}

\* the targets: the timestamps and the instants around them
Targets == (-1) .. (MaxStamp + 1)

\* getValidatorPayments is not running
IdlePayments ==
  /\ CONCURRENCY = 1
  /\ SLOT_INTERVAL_SECONDS = 12
  /\ startDate = [nan |-> FALSE, seconds |-> 0]
  /\ endDate = [nan |-> FALSE, seconds |-> 0]
  /\ ids = << >>
  /\ startTs = 0
  /\ endTs = 0
  /\ genesis = 0
  /\ startSlot = 0
  /\ endSlot = 0
  /\ id = 0
  /\ attempt = 0
  /\ lastError = "none"
  /\ error = NoError
  /\ indicesSet = {}
  /\ validators = << >>
  /\ consensusTotals = EmptyTotals
  /\ executionTotals = EmptyTotals
  /\ processedSlots = 0
  /\ slot = 0
  /\ activePromises = << >>
  /\ fixed = FALSE
  /\ seen = NoAnswers
  /\ settled = [s \in Slots |-> "none"]
  /\ consensusApplied = [s \in Slots |-> 0]
  /\ executionApplied = [s \in Slots |-> << >>]
  /\ sent = [genesis |-> FALSE, looked |-> {}, outcome |-> << >>, calls |-> 0]
  /\ input = NoInput

paymentsFrame == << CONCURRENCY, startSlot, endSlot, indicesSet, fixed, entryFrame,
                   creditFrame, processedSlots, slot, activePromises, seen, settled >>

\* lines 99-100: findBlockByTimestamp is called; low is set and the head
\* number is requested
InitSearch ==
  /\ IdlePayments
  /\ provider \in Chains
  /\ targetTimestamp \in Targets
  /\ low = 1
  /\ high = 0
  /\ closestBlock = 0
  /\ closestDiff = Infinity
  /\ returned = 0
  /\ pc = "getBlockNumber"

\* Math.abs
MathAbs(x) == IF x < 0 THEN -x ELSE x

\* Math.floor((low + high) / 2)
Mid(lo, hi) == MathFloor(lo + hi, 2)

\* line 114 without the comparison: only the first block fetched is kept
CloserFirstOnly(diff, closest) == ~closest.finite

\* line 114: diff < closestDiff
Closer(diff, closest) == ~closest.finite \/ diff < closest.value

\* lines 104-105, 127: the loop test with the bounds lo and hi: the next block
\* is requested, or the closest block seen is returned
LoopTest(lo, hi, closest) ==
  IF lo <= hi
    THEN pc' = "getBlock" /\ returned' = returned
    ELSE pc' = "returned" /\ returned' = closest

\* lines 100-104: the head number arrives
HeadNumber ==
  /\ pc = "getBlockNumber"
  /\ high' = provider.head
  /\ closestBlock' = low
  /\ closestDiff' = Infinity
  /\ LoopTest(low, provider.head, low)
  /\ UNCHANGED << paymentsFrame, provider, targetTimestamp, low >>

\* lines 106-125: the block numbered mid arrives, or null does
BlockFetched ==
  /\ pc = "getBlock"
  /\ LET mid == Mid(low, high) IN
     \E block \in {"null", "block"} :
       IF block = "null"
         THEN \* lines 107-109
              /\ pc' = "failed"
              /\ UNCHANGED << low, high, closestBlock, closestDiff, returned >>
         ELSE LET blockTimestamp == provider.timestamps[mid]
                  diff == MathAbs(blockTimestamp - targetTimestamp)
                  closer == Closer(diff, closestDiff)
                  block2 == IF closer THEN mid ELSE closestBlock
              IN /\ closestDiff' = IF closer THEN Finite(diff) ELSE closestDiff
                 /\ closestBlock' = block2
                 /\ IF blockTimestamp < targetTimestamp
                      THEN /\ low' = mid + 1
                           /\ high' = high
                           /\ LoopTest(mid + 1, high, block2)
                      ELSE IF blockTimestamp > targetTimestamp
                        THEN /\ high' = mid - 1
                             /\ low' = low
                             /\ LoopTest(low, mid - 1, block2)
                        ELSE /\ pc' = "returned"
                             /\ returned' = mid
                             /\ UNCHANGED << low, high >>
  /\ UNCHANGED << paymentsFrame, provider, targetTimestamp >>

NextSearch ==
  \/ HeadNumber
  \/ BlockFetched

\* every request to the provider settles
SpecSearch == InitSearch /\ [][NextSearch]_vars /\ WF_vars(NextSearch)

(***************************************************************************)
(* Auxiliary definitions of the properties.                                *)
(***************************************************************************)
RECURSIVE SumSet(_, _)
SumSet(f, S) ==
  IF S = {} THEN 0
  ELSE LET x == CHOOSE x \in S : TRUE
       IN f[x] + SumSet(f, S \ {x})

\* the sum of the values of a function (of an object's properties)
SumFun(f) == SumSet(f, DOMAIN f)

\* totals[a] || 0
Get(totals, a) == IF a \in DOMAIN totals THEN totals[a] ELSE Zero

\* a Number of coins as a count of quarter coins, when it is one: the total is
\* then held without any rounding; -1 for any other Number
Units(x) ==
  CASE x.m = << >> -> 0
    [] x.m # << >> /\ ~x.neg /\ Len(x.m) = 1 /\ x.e \in (-2) .. 10 ->
         x.m[1] * Pow2(x.e + 2)
    [] OTHER -> -1

\* the Numbers line 332 gives, each with the prioritySum it is the quotient of
WeiOf ==
  [x \in {ExecutionAmounts[p] : p \in PrioritySums} |->
     CHOOSE p \in PrioritySums : ExecutionAmounts[p] = x] @@ << >>

\* a Number of coins as the count of wei it is the conversion of (line 332),
\* when it is one; -2^30 for any other Number
Wei(x) == IF x \in DOMAIN WeiOf THEN WeiOf[x] ELSE -Pow2(30)

\* the totals of an object, each as a count of quarter coins, or of wei
InUnits(totals) == [k \in DOMAIN totals |-> Units(totals[k])]

InWei(totals) == [k \in DOMAIN totals |-> Wei(totals[k])]

\* x >= y
AtLeast(x, y) == ~Less(x, y)

Range == startSlot .. endSlot

\* the case-folded addresses and the validator indices of the fixture
AddressKeys == {"0xaaa", "0xbbb", "0xccc", "0xddd", "0xfee"}

ValidatorIndices == {5, 7, 9}

BatchIndices == 1 .. Len(activePromises)

BatchSlots == {activePromises[i].slot : i \in BatchIndices}

InFlight == Cardinality({i \in BatchIndices : activePromises[i].state = "pending"})

Quiescent == \A i \in BatchIndices : activePromises[i].state # "pending"

\* the withdrawals of the block of slot s for a validator of the set T
TrackedIn(T, s) ==
  LET wds == WithdrawalsOf(BeaconBlock(s))
  IN {k \in 1 .. Len(wds) : wds[k].validator_index \in T}

\* per tracked set T and slot s: what one run of the withdrawal loop credits
\* to each address and to each validator, in quarter coins (tables of the
\* fixture, tabulated once: @@ makes the function explicit)
ConsensusShareTable ==
  [T \in SUBSET ValidatorIndices |->
     [s \in Slots |->
        [a \in AddressKeys |->
           LET wds == WithdrawalsOf(BeaconBlock(s))
           IN SumFun([k \in {j \in TrackedIn(T, s) : toLowerCase(wds[j].address) = a}
                        |-> Units(ConsensusAmount(wds[k].amount))])] @@ << >>] @@ << >>] @@ << >>

ValidatorShareTable ==
  [T \in SUBSET ValidatorIndices |->
     [s \in Slots |->
        [v \in ValidatorIndices |->
           LET wds == WithdrawalsOf(BeaconBlock(s))
           IN SumFun([k \in {j \in TrackedIn(T, s) : wds[j].validator_index = v}
                        |-> Units(ConsensusAmount(wds[k].amount))])] @@ << >>] @@ << >>] @@ << >>

\* the tracked withdrawals of the block of slot s
TrackedWithdrawals(s) == TrackedIn(indicesSet, s)

\* what one run of the withdrawal loop of slot s credits to address a
ConsensusShare(s, a) == ConsensusShareTable[indicesSet][s][a]

\* what one run of the withdrawal loop of slot s credits to validator v
ValidatorShare(s, v) == ValidatorShareTable[indicesSet][s][v]

\* the slots whose execution reward goes to address a
FeeSlots ==
  [a \in AddressKeys |->
     {s \in Slots : /\ Len(BeaconBlock(s).execution_payload) > 0
                    /\ toLowerCase(BeaconBlock(s).execution_payload[1].fee_recipient) = a}]
  @@ << >>

PaysFeesTo(s, a) == s \in FeeSlots[a]

\* the slots whose withdrawals pay address a when T is tracked (every other
\* slot adds 0 to the total of a)
PaidSlots ==
  [T \in SUBSET ValidatorIndices |->
     [a \in AddressKeys |-> {s \in Slots : ConsensusShareTable[T][s][a] # 0}]
     @@ << >>] @@ << >>

\* the slots whose withdrawals pay validator v when T is tracked
WithdrawnSlots ==
  [T \in SUBSET ValidatorIndices |->
     [v \in ValidatorIndices |-> {s \in Slots : ValidatorShareTable[T][s][v] # 0}]
     @@ << >>] @@ << >>

\* the slots proposed by validator v
ProposedBy ==
  [v \in ValidatorIndices |-> {s \in Slots : BeaconBlock(s).proposer_index = v}] @@ << >>

RECURSIVE SumSeq(_)
SumSeq(q) == IF q = << >> THEN 0 ELSE q[1] + SumSeq(Tail(q))

\* the execution credits issued for slot s, in wei
ExecutionIssued(s) == SumSeq(executionApplied[s])

(***************************************************************************)
(* C1. Over all retry attempts of a slot unit, each tracked withdrawal of  *)
(* the slot and the slot's execution reward are added to the totals at     *)
(* most once.                                                              *)
(***************************************************************************)
C1_CreditedAtMostOnce ==
  \A s \in Slots :
    /\ TrackedWithdrawals(s) # {} => consensusApplied[s] <= 1
    /\ Len(executionApplied[s]) <= 1

(***************************************************************************)
(* C2. A slot unit that exhausts its retry budget contributes zero: the    *)
(* totals are those of the slots that did not fail.                        *)
(***************************************************************************)
NotRejected == {s \in Slots : settled[s] # "rejected"}

C2_ExhaustedContributesZero ==
  pc = "done" =>
    /\ \A a \in AddressKeys :
         /\ Units(Get(consensusTotals, a)) =
              SumFun([s \in NotRejected |-> consensusApplied[s] * ConsensusShare(s, a)])
         /\ Wei(Get(executionTotals, a)) =
              SumFun([s \in {t \in NotRejected : PaysFeesTo(t, a)} |-> ExecutionIssued(s)])
    /\ \A v \in indicesSet :
         Units(validators[v].consensus) =
           SumFun([s \in NotRejected |-> consensusApplied[s] * ValidatorShare(s, v)])

(***************************************************************************)
(* C3. A slot unit whose retry budget is exhausted does not stop the scan: *)
(* the scan is never stuck before it returns, and when it returns every    *)
(* slot of the range has been launched and has settled and processedSlots  *)
(* counts them all, the failed ones included.                              *)
(***************************************************************************)
C3_ExhaustionNotFatal ==
  /\ (Awaiting /\ Quiescent) => ENABLED (BatchSettled \/ RemainingSettled)
  /\ pc = "done" =>
       /\ processedSlots = totalSlots
       /\ \A s \in Range : settled[s] # "none"

C3_Witness ==
  /\ pc = "done"
  /\ \E s \in Range, t \in Range :
       /\ s < t
       /\ settled[s] = "rejected"
       /\ settled[t] = "fulfilled"
       /\ consensusApplied[t] > 0

(***************************************************************************)
(* C4. When the beacon block fetch answers 404 or 400, the unit ends at    *)
(* once as a success: the attempt counter does not move, no backoff sleep  *)
(* is entered, no total changes and the unit is fulfilled.                 *)
(***************************************************************************)
TerminalSkipStep(i) ==
  /\ activePromises[i].pc = "block"
  /\ i <= Len(activePromises')
  /\ activePromises'[i].last \in {"404", "400"}

C4_TerminalSkip ==
  /\ [](\A i \in BatchIndices :
          activePromises[i].last \in {"404", "400"} =>
            activePromises[i].state = "fulfilled" /\ activePromises[i].pc = "end")
  /\ [][\A i \in BatchIndices :
          TerminalSkipStep(i) =>
            /\ activePromises'[i].state = "fulfilled"
            /\ activePromises'[i].attempt = activePromises[i].attempt
            /\ settled'[activePromises[i].slot] = "fulfilled"
            /\ UNCHANGED << validators, consensusTotals, executionTotals, pc >>]_vars

C4_Witness ==
  /\ \E i \in BatchIndices :
       /\ activePromises[i].last = "404"
       /\ activePromises[i].state = "fulfilled"
       /\ activePromises[i].attempt = 1
  /\ \E i \in BatchIndices :
       /\ activePromises[i].last = "400"
       /\ activePromises[i].state = "fulfilled"
       /\ activePromises[i].attempt > 1

(***************************************************************************)
(* C5. In every state the number of slot units launched and not yet        *)
(* settled is at most CONCURRENCY, also while a batch is being filled.     *)
(***************************************************************************)
C5_ConcurrencyCeiling ==
  /\ InFlight <= CONCURRENCY
  /\ Len(activePromises) <= CONCURRENCY

C5_Witness ==
  /\ CONCURRENCY = 2
  /\ InFlight = CONCURRENCY
  /\ pc = "awaitBatch"

(***************************************************************************)
(* C6. No unit of the next batch is launched before every unit of the      *)
(* current batch has settled, and a unit that fails leaves its siblings    *)
(* alone: each runs to its own success, skip or exhaustion.                *)
(***************************************************************************)
C6_BatchBarrier ==
  /\ [](\A s \in Range : (s < slot /\ s \notin BatchSlots) => settled[s] # "none")
  /\ [](pc = "loop" /\ slot <= endSlot =>
          \A i \in BatchIndices : activePromises[i] = NewUnit(activePromises[i].slot))
  /\ [](\A i \in BatchIndices :
          activePromises[i].state = "rejected" => activePromises[i].attempt = RETRIES + 1)
  /\ [][\A i \in BatchIndices :
          (i <= Len(activePromises') /\ activePromises[i].state = "pending"
             /\ activePromises'[i].state = "rejected") =>
            \A j \in BatchIndices \ {i} : activePromises'[j] = activePromises[j]]_vars

C6_Witness ==
  \E i \in BatchIndices, j \in BatchIndices :
    /\ activePromises[i].state = "rejected"
    /\ activePromises[j].state = "pending"
    /\ activePromises[j].pc = "gas"

(***************************************************************************)
(* C7. processedSlots never decreases, never exceeds totalSlots, changes   *)
(* only when a whole batch has settled, by that batch's size, and equals   *)
(* totalSlots when the scan completes.                                     *)
(***************************************************************************)
C7_Progress ==
  /\ [](processedSlots <= totalSlots)
  /\ [](pc = "done" => processedSlots = totalSlots)
  /\ [][\/ processedSlots' = processedSlots
        \/ /\ Quiescent
           /\ Len(activePromises) > 0
           /\ processedSlots' = processedSlots + Len(activePromises)]_vars

C7_Witness ==
  /\ pc = "done"
  /\ CONCURRENCY = 2
  /\ processedSlots = 3
  /\ \E s \in Range : settled[s] = "rejected"
  /\ \E i \in BatchIndices : activePromises[i].last = "404"

NeedsExecution(s) ==
  /\ TenthsBlock(s).proposer_index \in indicesSet
  /\ Len(TenthsBlock(s).execution_payload) > 0

\* how many attempts of the unit of slot s run the withdrawal loop when every
\* request of the slot always gets the answer recorded in `seen`
ExpectedLoopRuns(s) ==
  IF seen.beacon[s] # "200" \/ seen.beaconBody[s] # "json" THEN 0
  ELSE IF /\ NeedsExecution(s)
          /\ \/ seen.rpc[s] \in {"reject", "500"}
             \/ seen.rpcBody[s] = "unreadable"
    THEN RETRIES + 1
  ELSE 1

ExpectedExecutionCredited(s) ==
  /\ seen.beacon[s] = "200"
  /\ seen.beaconBody[s] = "json"
  /\ NeedsExecution(s)
  /\ seen.rpc[s] = "200"
  /\ seen.rpcBody[s] = "result"

\* the transactions of the block of slot s whose receipt gives their gas
Receipted(s) ==
  {k \in 1 .. 2 : seen.gas[s][k] = "200" /\ seen.gasBody[s][k] = "result"}

\* prioritySum of the block of slot s at line 332
ExpectedPrioritySum(s) ==
  LET b == ExecBlock(TenthsBlock(s).execution_payload[1].block_number)
  IN SumFun([t \in {k \in 1 .. Len(b.transactions) : k \in Receipted(s)} |->
               Tip(b.transactions[t], b.baseFeePerGas)
                 * ReceiptGasUsed(b.transactions[t].hash)])

\* the validators and the totals after k more runs of the withdrawal loop
\* (lines 271-282) of the block of slot s
RECURSIVE LoopRuns(_, _, _)
LoopRuns(s, k, st) ==
  IF k = 0 THEN st
  ELSE LoopRuns(s, k - 1,
         ProcessWithdrawals(WithdrawalsOf(TenthsBlock(s)), 1, ScanIndices, st))

\* the scan with one unit at a time: slots s .. MaxSlot - 1 in their order,
\* the withdrawal loop of slot s run runs[s] times
RECURSIVE InSlotOrder(_, _, _)
InSlotOrder(runs, s, st) ==
  IF s = MaxSlot THEN st.consensusTotals
  ELSE InSlotOrder(runs, s + 1, LoopRuns(s, runs[s], st))

\* per number of runs of each slot, the consensus totals of the scan with one
\* unit at a time
SequentialConsensus ==
  [runs \in [Slots -> {0, 1, RETRIES + 1}] |->
     InSlotOrder(runs, 0,
       [validators |-> ScanValidators, consensusTotals |-> EmptyTotals])] @@ << >>

\* the execution totals of the scan with one unit at a time, slots s ..
\* endSlot
RECURSIVE SequentialExecution(_, _)
SequentialExecution(s, totals) ==
  IF s > endSlot THEN totals
  ELSE SequentialExecution(s + 1,
         IF ExpectedExecutionCredited(s)
           THEN CreditAddress(totals,
                  toLowerCase(TenthsBlock(s).execution_payload[1].fee_recipient),
                  ExecutionAmount(ExpectedPrioritySum(s)))
           ELSE totals)

\* C9: when the scan has returned, the totals per address are those of the
\* scan of the same range with the same answers and one unit at a time
C9_OrderIndependent ==
  pc = "done" =>
    LET runs == [s \in Slots |-> IF s \in Range THEN ExpectedLoopRuns(s) ELSE 0]
    IN /\ consensusTotals = SequentialConsensus[runs]
       /\ executionTotals = SequentialExecution(startSlot, EmptyTotals)

(***************************************************************************)
(* C10. Credits of concurrently in-flight slot units never lose an update: *)
(* every address total and every validator total is the sum of all the     *)
(* credits issued to it.                                                   *)
(***************************************************************************)
NoLostUpdate ==
  LET consensusShare == ConsensusShareTable[indicesSet]
      validatorShare == ValidatorShareTable[indicesSet]
      paid == PaidSlots[indicesSet]
      withdrawn == WithdrawnSlots[indicesSet]
  IN
  /\ \A a \in AddressKeys :
       /\ Units(Get(consensusTotals, a)) =
            SumFun([s \in paid[a] |-> consensusApplied[s] * consensusShare[s][a]])
       /\ Wei(Get(executionTotals, a)) =
            SumFun([s \in FeeSlots[a] |-> ExecutionIssued(s)])
  /\ DOMAIN consensusTotals \subseteq AddressKeys
  /\ DOMAIN executionTotals \subseteq AddressKeys
  /\ \A v \in indicesSet :
       /\ Units(validators[v].consensus) =
            SumFun([s \in withdrawn[v] |-> consensusApplied[s] * validatorShare[s][v]])
       /\ Wei(validators[v].execution) =
            SumFun([s \in ProposedBy[v] |-> ExecutionIssued(s)])

\* C10: at every state of every behaviour no credit has been lost
C10_NoLostUpdate == []NoLostUpdate

C10_Witness ==
  \E i \in BatchIndices, j \in BatchIndices :
    /\ i # j
    /\ activePromises[i].state = "pending"
    /\ activePromises[i].pc = "gas"
    /\ consensusApplied[activePromises[i].slot] >= 2
    /\ consensusApplied[activePromises[j].slot] >= 1
    /\ ConsensusShare(activePromises[i].slot, "0xaaa") > 0
    /\ ConsensusShare(activePromises[j].slot, "0xaaa") > 0

(***************************************************************************)
(* Auxiliary definitions of the properties of the entry.                   *)
(***************************************************************************)
\* lines 189-191 have run: the genesis request has answered 200 and its body
\* has been parsed
RangeComputed ==
  /\ sent.genesis
  /\ pc \notin {"genesis", "genesisSleep", "genesisBody"}
  /\ error.kind \notin {"GenesisHttp", "Exhausted", "GenesisBody"}

\* the instant at which slot s starts
SlotInstant(s) == genesis + s * SLOT_INTERVAL_SECONDS

(***************************************************************************)
(* C11. The end date is exclusive: every slot whose block is fetched       *)
(* starts strictly before endTs; with genesis 0, slots of 12 seconds,      *)
(* startTs = 0 and endTs = 24 the scanned range is exactly [0, 1].         *)
(***************************************************************************)
C11_EndExclusive ==
  /\ \A i \in BatchIndices : SlotInstant(activePromises[i].slot) < endTs
  /\ (RangeComputed /\ genesis = 0 /\ SLOT_INTERVAL_SECONDS = 12
        /\ startTs = 0 /\ endTs = 24) =>
       (startSlot = 0 /\ endSlot = 1)

(***************************************************************************)
(* C12. The computed range is startSlot = max(0, ceil((startTs - G) / I))  *)
(* and endSlot = floor((endTs - G) / I): startSlot is 0 or the least slot  *)
(* that starts at or after startTs, endSlot is the last slot that starts   *)
(* at or before endTs; startSlot is never negative and no block of a slot  *)
(* below 0 is requested.                                                   *)
(***************************************************************************)
C12_SlotRange ==
  /\ RangeComputed =>
       /\ startSlot >= 0
       /\ SlotInstant(startSlot) >= startTs
       /\ startSlot > 0 => SlotInstant(startSlot - 1) < startTs
       /\ SlotInstant(endSlot) <= endTs
       /\ endTs < SlotInstant(endSlot + 1)
  /\ \A i \in BatchIndices : activePromises[i].slot >= 0

C12_Witness ==
  /\ RangeComputed
  /\ startTs - genesis < 0 - SLOT_INTERVAL_SECONDS
  /\ endSlot >= 1
  /\ (endTs - genesis) % SLOT_INTERVAL_SECONDS # 0
  /\ Len(activePromises) > 0
  /\ activePromises[1].slot = 0

(***************************************************************************)
(* C13. The slot range is monotonic (startSlot non-decreasing in startTs,  *)
(* endSlot non-decreasing in endTs) and startSlot <= endSlot whenever      *)
(* startTs < endTs and endTs - startTs > I, also for intervals wholly or   *)
(* partly before genesis.                                                  *)
(***************************************************************************)
Monotonic ==
  \A t \in Timestamps :
    /\ t <= startTs => StartSlotOf(t, genesis, SLOT_INTERVAL_SECONDS) <= startSlot
    /\ t >= startTs => StartSlotOf(t, genesis, SLOT_INTERVAL_SECONDS) >= startSlot
    /\ t <= endTs => EndSlotOf(t, genesis, SLOT_INTERVAL_SECONDS) <= endSlot
    /\ t >= endTs => EndSlotOf(t, genesis, SLOT_INTERVAL_SECONDS) >= endSlot

LongerThanOneSlot ==
  startTs < endTs /\ endTs - startTs > SLOT_INTERVAL_SECONDS

C13_RangeOrdered ==
  RangeComputed =>
    /\ Monotonic
    /\ LongerThanOneSlot => startSlot <= endSlot

(***************************************************************************)
(* C13, amended. The slot range is monotonic, and startSlot <= endSlot     *)
(* whenever startTs < endTs, endTs - startTs > I and the interval does not *)
(* lie wholly before genesis (endTs >= G); an interval wholly before       *)
(* genesis has endSlot < 0 <= startSlot.                                   *)
(***************************************************************************)
C13_RangeOrderedFromGenesis ==
  RangeComputed =>
    /\ Monotonic
    /\ (LongerThanOneSlot /\ endTs >= genesis) => startSlot <= endSlot
    /\ endTs < genesis => (endSlot < 0 /\ 0 <= startSlot)

C13_Witness ==
  /\ RangeComputed
  /\ LongerThanOneSlot
  /\ startTs < genesis
  /\ endTs >= genesis
  /\ endTs - genesis < SLOT_INTERVAL_SECONDS
  /\ pc = "loop"

(***************************************************************************)
(* C14. getValidatorPayments fails fatally, without fetching any slot      *)
(* block and without crediting anything, when a date does not parse or     *)
(* when startSlot > endSlot; the unparsable-date failure is raised before  *)
(* the genesis request is sent.                                            *)
(***************************************************************************)
NothingCredited ==
  /\ consensusTotals = EmptyTotals
  /\ executionTotals = EmptyTotals
  /\ \A v \in DOMAIN validators :
       validators[v].consensus = Zero /\ validators[v].execution = Zero

C14_InvalidRangeFatal ==
  /\ (pc # "start" /\ (startDate.nan \/ endDate.nan)) =>
       /\ pc = "failed"
       /\ error.kind = "InvalidDate"
       /\ ~sent.genesis
  /\ (RangeComputed /\ startSlot > endSlot) =>
       /\ pc = "failed"
       /\ error.kind = "StartAfterEnd"
       /\ sent.looked = {}
  /\ pc = "failed" =>
       /\ activePromises = << >>
       /\ NothingCredited
       /\ ~ENABLED (Launch \/ UnitStep)

C14_Witness ==
  /\ pc = "failed"
  /\ error.kind = "StartAfterEnd"
  /\ startTs < endTs
  /\ endTs >= genesis
  /\ ids # << >>

(***************************************************************************)
(* C15. For a tracked withdrawal of a coins and maximum effective balance  *)
(* M the credited amount is 0 when a = M, X when a = M + X with X > 0 and  *)
(* a when a < M; 33 coins credit 1 coin.  (A number of coins is the Number *)
(* its count of gwei converts to.)                                         *)
(***************************************************************************)
\* the principal, in gwei
Principal == << MAX_EFFECTIVE_BALANCE, 0 >>

\* an amount of gwei above the principal, and what exceeds the principal
AbovePrincipal(text) ==
  text[1] > MAX_EFFECTIVE_BALANCE \/ (text[1] = MAX_EFFECTIVE_BALANCE /\ text[2] > 0)

Excess(text) == << text[1] - MAX_EFFECTIVE_BALANCE, text[2] >>

\* the Number of coins each amount of gwei converts to
CoinsOf ==
  [text \in WithdrawalAmounts
             \cup {Excess(t) : t \in {w \in WithdrawalAmounts : AbovePrincipal(w)}} |->
     AmountInCoins(text)] @@ << >>

C15_PrincipalStripped ==
  (consensusApplied[0] = 1 /\ input.withdrawal.validator_index \in indicesSet) =>
    LET a == input.withdrawal.amount
        credited == Get(consensusTotals, toLowerCase(input.withdrawal.address))
    IN /\ a = Principal => credited = Zero
       /\ AbovePrincipal(a) => credited = CoinsOf[Excess(a)]
       /\ (a # Principal /\ ~AbovePrincipal(a)) => credited = CoinsOf[a]
       /\ a = << 33, 0 >> => credited = FromInt(1)
       /\ validators[input.withdrawal.validator_index].consensus = credited

(***************************************************************************)
(* C16. The execution revenue credited for a block of a tracked proposer   *)
(* is the sum over its transactions of tip * gasUsed, with tip =           *)
(* min(maxPriorityFee, maxFee - baseFee), and tip = gasPrice - baseFee for *)
(* a legacy transaction; maxPriority 2, maxFee 10, baseFee 3, gasUsed 1000 *)
(* give 2000.  (In wei: the credited Number is the conversion of line 332   *)
(* of that sum.)                                                           *)
(***************************************************************************)
Min(a, b) == IF a < b THEN a ELSE b

Legacy(tx) == "maxFeePerGas" \notin DOMAIN tx

ClaimedTip(tx, baseFee) ==
  IF Legacy(tx) THEN tx.gasPrice - baseFee
  ELSE Min(tx.maxPriorityFeePerGas, tx.maxFeePerGas - baseFee)

\* the receipt of the transaction has been answered with its result, and
\* the unit of slot 0 has credited the block
BlockCredited ==
  /\ seen.gasBody[0][1] = "result"
  /\ Len(executionApplied[0]) = 1

C16_TipRevenue ==
  BlockCredited =>
    /\ Wei(Get(executionTotals, "0xfee"))
         = ClaimedTip(input.tx, input.baseFeePerGas) * input.gasUsed
    /\ Wei(validators[5].execution)
         = ClaimedTip(input.tx, input.baseFeePerGas) * input.gasUsed
    /\ (~Legacy(input.tx) /\ input.tx.maxPriorityFeePerGas = 2
          /\ input.tx.maxFeePerGas = 10 /\ input.baseFeePerGas = 3
          /\ input.gasUsed = 1000) =>
         Wei(Get(executionTotals, "0xfee")) = 2000

(***************************************************************************)
(* C17. No step decreases a per-address or per-validator total: every      *)
(* amount credited is >= 0, also for a transaction whose fee cap is below  *)
(* the base fee of its block.                                              *)
(***************************************************************************)
C17_NeverDecreases ==
  [][/\ \A a \in AddressKeys :
          /\ AtLeast(Get(consensusTotals', a), Get(consensusTotals, a))
          /\ AtLeast(Get(executionTotals', a), Get(executionTotals, a))
     /\ \A v \in indicesSet :
          /\ AtLeast(validators'[v].consensus, validators[v].consensus)
          /\ AtLeast(validators'[v].execution, validators[v].execution)]_vars

(***************************************************************************)
(* C18. retry(fn, 4) invokes fn at most 5 times, again only after the      *)
(* previous invocation failed and its backoff sleep ended, returns the     *)
(* result of the first successful invocation without further invocations,  *)
(* and throws the exhaustion error, with the last error's message, only    *)
(* after 5 failed invocations.  (The retry calls of the genesis fetch and  *)
(* of the validator lookups; sent.calls counts the invocations.)           *)
(***************************************************************************)
Sleeping == pc \in {"genesisSleep", "validatorSleep"}

IdPositions == 1 .. Len(ids)

RetryStep ==
  /\ sent'.calls # sent.calls =>
       \* the same call invokes its function again
       \/ /\ Sleeping
          /\ sent'.calls = sent.calls + 1
          /\ pc' = IF pc = "genesisSleep" THEN "genesis" ELSE "validator"
          /\ id' = id
       \* another call of retry starts
       \/ /\ pc = "start" \/ id' # id
          /\ sent'.calls = 1
          /\ pc' \in {"genesis", "validator"}
  /\ (pc \in {"genesis", "validator"} /\ pc' = pc) => id' # id
  /\ pc \notin {"start", "genesis", "genesisSleep"} => pc' \notin {"genesis", "genesisSleep"}
  /\ \A k \in IdPositions :
       /\ sent.outcome[k] # "none" => sent'.outcome[k] = sent.outcome[k]
       /\ (sent.outcome[k] = "none" /\ sent'.outcome[k] = "exhausted") =>
            (sent.calls = RETRIES + 1 /\ pc = "validatorSleep")

C18_RetryBudget ==
  /\ [](sent.calls <= RETRIES + 1)
  /\ [](pc \in {"validator", "validatorBody", "validatorSleep"} =>
          sent.outcome[id] = "none")
  /\ [](error.kind = "Exhausted" =>
          /\ sent.calls = RETRIES + 1
          /\ error.last \in Rejections
          /\ error.last = lastError)
  /\ [][RetryStep]_vars

C18_Witness ==
  /\ Len(ids) = 2
  /\ sent.outcome[1] = "exhausted"
  /\ sent.outcome[2] = "ok"
  /\ sent.calls = 3
  /\ pc = "loop"

(***************************************************************************)
(* C19. A 5xx response is a retryable failure for every kind of request:   *)
(* after a 5xx response the request is attempted again within the retry    *)
(* budget, so a 5xx ends the genesis fetch or a validator lookup only when *)
(* the budget is used up.                                                  *)
(***************************************************************************)
C19_ServerErrorRetried ==
  [][/\ (error.kind = "none" /\ error'.kind = "GenesisHttp") =>
          sent.calls = RETRIES + 1
     /\ \A k \in IdPositions :
          (sent.outcome[k] = "none" /\ sent'.outcome[k] = "500") =>
            sent.calls = RETRIES + 1]_vars

(***************************************************************************)
(* C20. During validator resolution a failure for one identifier (non-OK   *)
(* response, or retries exhausted) skips only that identifier: every       *)
(* identifier is looked up, the tracked set holds the index of each that   *)
(* resolved, and the scan starts as long as at least one resolved.         *)
(***************************************************************************)
Resolved == {k \in IdPositions : sent.outcome[k] = "ok"}

ResolutionOver ==
  \/ pc \in {"loop", "awaitBatch", "awaitRemaining", "done"}
  \/ error.kind = "NoValidators"

C20_FailureSkipsOneIdentifier ==
  /\ ResolutionOver =>
       /\ sent.looked = IdPositions
       /\ \A k \in IdPositions : sent.outcome[k] # "none"
       /\ indicesSet = {ValidatorData(ids[k]).index : k \in Resolved}
       /\ DOMAIN validators = indicesSet
       /\ pc # "failed" <=> Resolved # {}
  /\ (pc = "failed" /\ sent.looked # {}) =>
       (error.kind = "NoValidators" /\ Resolved = {})
  /\ pc \in {"validator", "validatorBody", "validatorSleep"} =>
       /\ sent.looked = 1 .. id
       /\ \A k \in 1 .. (id - 1) : sent.outcome[k] # "none"

C20_Witness ==
  /\ Len(ids) = 2
  /\ sent.outcome[1] \in {"500", "exhausted"}
  /\ sent.outcome[2] = "ok"
  /\ pc = "awaitBatch"
  /\ indicesSet = {7}

(***************************************************************************)
(* C21. When no identifier resolves to a validator, getValidatorPayments   *)
(* fails fatally ('No valid validators found.') after having tried every   *)
(* identifier, and no slot block is ever fetched: no slot unit is          *)
(* launched, nothing is counted and nothing is credited.                   *)
(***************************************************************************)
\* every identifier has been looked up and none resolved
AllFailed == \A k \in IdPositions : sent.outcome[k] \notin {"none", "ok"}

\* no slot unit was launched and no block request was answered
NoBlockFetched ==
  /\ activePromises = << >>
  /\ processedSlots = 0
  /\ seen = NoAnswers
  /\ \A s \in Slots : settled[s] = "none" /\ consensusApplied[s] = 0

C21_NoValidatorsFatal ==
  /\ error.kind = "NoValidators" =>
       /\ pc = "failed"
       /\ AllFailed
       /\ sent.looked = IdPositions
       /\ indicesSet = {}
       /\ NoBlockFetched
  /\ AllFailed =>
       /\ NoBlockFetched
       /\ pc \notin {"loop", "awaitBatch", "awaitRemaining", "done"}
  /\ (AllFailed /\ RangeComputed /\ startSlot <= endSlot
        /\ pc \notin {"validator", "validatorBody", "validatorSleep"}) =>
       (pc = "failed" /\ error.kind = "NoValidators")

C21_Witness ==
  /\ error.kind = "NoValidators"
  /\ pc = "failed"
  /\ Len(ids) = 2
  /\ sent.outcome[1] = "exhausted"
  /\ sent.outcome[2] = "404"
  /\ sent.looked = {1, 2}

(***************************************************************************)
(* C24. Provided every network request settles and every backoff sleep     *)
(* ends, getValidatorPayments eventually terminates, by returning the      *)
(* totals (pc = "done") or by a fatal error (pc = "failed"), whatever      *)
(* the services answer.                                                    *)
(***************************************************************************)
Terminated == pc \in {"done", "failed"}

C24_Terminates == <>Terminated

(***************************************************************************)
(* C22. After validator resolution there is exactly one validator record   *)
(* and one tracked-set entry per distinct canonical index: two identifiers *)
(* that resolve to the same index yield a single record, and a withdrawal  *)
(* for that index is credited once per occurrence in a block, not once per *)
(* identifier.                                                             *)
(***************************************************************************)
\* the canonical indices of the identifiers resolved so far
DistinctIndices == {ValidatorData(ids[k]).index : k \in Resolved}

\* what the occurrences of validator v among the withdrawals of the block of
\* slot s amount to, in quarter coins
OccurrenceCredit(s, v) == ValidatorShareTable[{v}][s][v]

C22_OneRecordPerIndex ==
  /\ DOMAIN validators = indicesSet
  /\ indicesSet = DistinctIndices
  /\ Cardinality(DOMAIN validators) <= Cardinality(Resolved)
  /\ (Resolved = {1, 2} /\ ids = << "5", "0xpk5" >>) =>
       Cardinality(DOMAIN validators) = 1
  /\ \A v \in indicesSet :
       Units(validators[v].consensus) =
         SumFun([s \in Slots |-> consensusApplied[s] * OccurrenceCredit(s, v)])

C22_Witness ==
  /\ pc = "done"
  /\ ids = << "5", "0xpk5" >>
  /\ Resolved = {1, 2}
  /\ indicesSet = {5}
  /\ DOMAIN validators = {5}
  /\ consensusApplied[0] = 1
  /\ Units(validators[5].consensus) = OccurrenceCredit(0, 5)
  /\ Units(validators[5].consensus) > 0

(***************************************************************************)
(* C23. The result returned by getValidatorPayments reports how many slots *)
(* were incompletely processed (retry budget exhausted): when some unit    *)
(* was rejected, the returned object has a property, next to the totals,   *)
(* that holds the number of those slots.                                   *)
(***************************************************************************)
\* line 361: the object returned
ReturnValue == [consensus |-> consensusTotals, execution |-> executionTotals]

\* the slots of the range whose unit used up its retries
IncompleteSlots == {s \in Range : settled[s] = "rejected"}

C23_ReportsIncompleteSlots ==
  (pc = "done" /\ IncompleteSlots # {}) =>
    \E f \in DOMAIN ReturnValue \ {"consensus", "execution"} :
      ReturnValue[f] = Cardinality(IncompleteSlots)

(***************************************************************************)
(* C25. Given block timestamps strictly increasing in the block number     *)
(* over 1..head, findBlockByTimestamp returns a block number in 1..head    *)
(* whose timestamp has the minimum absolute distance to the target among   *)
(* all blocks 1..head (the exact block when one has that timestamp), and   *)
(* it terminates: it returns, or throws because a block could not be       *)
(* fetched.                                                                *)
(***************************************************************************)
StrictlyIncreasing ==
  \A b \in 1 .. (provider.head - 1) : provider.timestamps[b] < provider.timestamps[b + 1]

Distance(b) == MathAbs(provider.timestamps[b] - targetTimestamp)

ClosestReturned ==
  (pc = "returned" /\ StrictlyIncreasing) =>
    /\ returned \in 1 .. provider.head
    /\ \A b \in 1 .. provider.head : Distance(returned) <= Distance(b)
    /\ \A b \in 1 .. provider.head :
         provider.timestamps[b] = targetTimestamp => returned = b

C25_ClosestBlock == []ClosestReturned /\ <>(pc \in {"returned", "failed"})

\* the loop ends with low > high, between two blocks neither of which has
\* the target's timestamp, and returns the later one, which is closer
C25_Witness ==
  /\ pc = "returned"
  /\ low > high
  /\ provider.head = MaxHead
  /\ 1 <= high
  /\ low <= provider.head
  /\ returned = low
  /\ 0 < Distance(low)
  /\ Distance(low) < Distance(high)

(***************************************************************************)
(* C26. Every slot index in [startSlot, endSlot] gets exactly one          *)
(* slot-processing unit launched during the scan, no unit is launched for  *)
(* an index outside that range, and the units are launched in increasing   *)
(* slot order.                                                             *)
(***************************************************************************)
\* the slots a unit has been launched for: a unit stays in its batch until
\* the batch is emptied, which happens only after it has settled
Launched == BatchSlots \cup {s \in Slots : settled[s] # "none"}

\* the slots launched are those from startSlot up to the loop variable
LaunchedRange ==
  /\ Launched \subseteq Range
  /\ pc = "loop" => Launched = startSlot .. (slot - 1)
  /\ pc = "awaitBatch" => Launched = startSlot .. slot
  /\ pc \in {"awaitRemaining", "done"} => Launched = Range
  /\ \A i \in BatchIndices : \A j \in BatchIndices :
       i < j => activePromises[i].slot < activePromises[j].slot

\* a step that launches a unit launches one, for a slot that has none yet
\* and that follows every slot launched before
LaunchInOrder ==
  Len(activePromises') > Len(activePromises) =>
    /\ Len(activePromises') = Len(activePromises) + 1
    /\ LET s == activePromises'[Len(activePromises')].slot
       IN /\ s \in Range
          /\ s \notin Launched
          /\ \A t \in Launched : t < s
          /\ Launched' = Launched \cup {s}

C26_EachSlotOnce == []LaunchedRange /\ [][LaunchInOrder]_vars

\* a range of three slots scanned in a batch of two and a remainder of one
C26_Witness ==
  /\ pc = "done"
  /\ CONCURRENCY = 2
  /\ Range = {0, 1, 2}
  /\ Launched = Range
  /\ processedSlots = 3

(***************************************************************************)
(* C27. When the execution-block RPC call for a tracked proposer's slot    *)
(* answers with an RPC error object or with no result, the error           *)
(* propagates to the slot's enclosing retry: the unit never goes from      *)
(* waiting for the execution block to success without applying an          *)
(* execution credit.                                                       *)
(***************************************************************************)
\* unit i, reading the answer to its execution block request, ends as a
\* success in this step
RpcStepToSuccess(i) ==
  /\ i <= Len(activePromises)
  /\ i <= Len(activePromises')
  /\ activePromises[i].state = "pending"
  /\ activePromises[i].pc = "rpcBody"
  /\ activePromises'[i].state = "fulfilled"

C27_RpcErrorPropagates ==
  [][\A i \in 1 .. MaxConcurrency :
       RpcStepToSuccess(i) =>
         Len(executionApplied'[activePromises[i].slot]) =
           Len(executionApplied[activePromises[i].slot]) + 1]_vars

(***************************************************************************)
(* C28. When the gas-used lookup of a transaction in a tracked proposer's  *)
(* block fails after its own retries, the failure propagates to the slot's *)
(* enclosing retry: the step that ends the lookup's last backoff sleep     *)
(* makes the slot unit fail (its own backoff sleep starts) and applies no  *)
(* execution credit, so that no credit leaves out a transaction.           *)
(***************************************************************************)
\* the receipt lookup of unit i, all its attempts failed, gives up in this step
GasLookupExhausted(i) ==
  /\ i <= Len(activePromises)
  /\ activePromises[i].state = "pending"
  /\ activePromises[i].pc = "gasSleep"
  /\ activePromises[i].inner = RETRIES + 1
  /\ activePromises'[i] # activePromises[i]

C28_NoPartialExecutionCredit ==
  [][\A i \in 1 .. MaxConcurrency :
       GasLookupExhausted(i) =>
         /\ activePromises'[i].pc = "sleep"
         /\ executionApplied' = executionApplied]_vars

(***************************************************************************)
(* C29. When a block proposed by a tracked validator has no execution      *)
(* payload, the slot unit ends as a success on that attempt: no            *)
(* execution-chain request is sent, no execution credit and no consensus   *)
(* credit is applied, no retry is consumed and no error is raised.         *)
(***************************************************************************)
\* the block of slot s is proposed by a tracked validator and has no payload
TrackedNoPayload(s) ==
  /\ BeaconBlock(s).proposer_index \in indicesSet
  /\ Len(BeaconBlock(s).execution_payload) = 0

\* such a slot never has an execution-chain request under way nor a credit
NoExecutionWithoutPayload ==
  \A s \in Slots :
    TrackedNoPayload(s) =>
      /\ executionApplied[s] = << >>
      /\ \A i \in BatchIndices :
           activePromises[i].slot = s =>
             activePromises[i].pc \in {"block", "blockBody", "sleep", "end"}

\* the block of the slot of unit i is delivered in this step (the withdrawal
\* loop runs)
BlockDelivered(i) ==
  /\ i <= Len(activePromises)
  /\ activePromises[i].state = "pending"
  /\ activePromises[i].pc = "blockBody"
  /\ consensusApplied'[activePromises[i].slot] =
       consensusApplied[activePromises[i].slot] + 1

NoPayloadStep ==
  \A i \in 1 .. MaxConcurrency :
    (BlockDelivered(i) /\ TrackedNoPayload(activePromises[i].slot)) =>
      /\ activePromises'[i].state = "fulfilled"
      /\ activePromises'[i].attempt = activePromises[i].attempt
      /\ settled'[activePromises[i].slot] = "fulfilled"
      /\ UNCHANGED << validators, consensusTotals, executionTotals, executionApplied >>

C29_NoPayloadSkipped == []NoExecutionWithoutPayload /\ [][NoPayloadStep]_vars

\* slot 2, proposed by validator 7 without a payload, succeeded at once
C29_Witness ==
  /\ TrackedNoPayload(2)
  /\ settled[2] = "fulfilled"
  /\ consensusApplied[2] = 1
  /\ \E i \in BatchIndices :
       /\ activePromises[i].slot = 2
       /\ activePromises[i].state = "fulfilled"
       /\ activePromises[i].attempt = 1
       /\ activePromises[i].last = "none"

(***************************************************************************)
(* C30. Processing a block leaves all totals unchanged unless it concerns  *)
(* a tracked validator: a withdrawal whose validator index is not in the   *)
(* tracked set changes no total, a block whose proposer is not tracked     *)
(* causes no execution-chain request and no execution credit, and a        *)
(* tracked validator's withdrawal is credited even when the block's        *)
(* proposer is not tracked.                                                *)
(***************************************************************************)
\* the case-folded addresses of the tracked withdrawals of the block of slot s
TrackedAddresses(s) ==
  {toLowerCase(WithdrawalsOf(BeaconBlock(s))[k].address) : k \in TrackedWithdrawals(s)}

\* a slot whose proposer is not tracked never has an execution-chain request
\* under way nor an execution credit; no record exists for another validator
UntrackedProposerIdle ==
  /\ DOMAIN validators = indicesSet
  /\ \A s \in Slots :
       BeaconBlock(s).proposer_index \notin indicesSet =>
         /\ executionApplied[s] = << >>
         /\ \A i \in BatchIndices :
              activePromises[i].slot = s =>
                activePromises[i].pc \in {"block", "blockBody", "sleep", "end"}

\* the step that delivers a block credits the tracked withdrawals, and them
\* only, whoever proposed the block
TrackedOnlyStep ==
  \A i \in 1 .. MaxConcurrency :
    BlockDelivered(i) =>
      LET s == activePromises[i].slot IN
      /\ \A a \in AddressKeys :
           Units(Get(consensusTotals', a))
             = Units(Get(consensusTotals, a)) + ConsensusShare(s, a)
      /\ DOMAIN consensusTotals' = DOMAIN consensusTotals \cup TrackedAddresses(s)
      /\ \A v \in indicesSet :
           /\ Units(validators'[v].consensus)
                = Units(validators[v].consensus) + ValidatorShare(s, v)
           /\ validators'[v].execution = validators[v].execution
      /\ DOMAIN validators' = indicesSet
      /\ UNCHANGED << executionTotals, executionApplied >>
      /\ BeaconBlock(s).proposer_index \notin indicesSet =>
           activePromises'[i].state = "fulfilled"

C30_TrackedOnly == []UntrackedProposerIdle /\ [][TrackedOnlyStep]_vars

\* slot 0 (tracked proposer 5, a withdrawal of untracked validator 9 to
\* 0xCCC) and slot 1 (untracked proposer 9, a withdrawal of tracked validator
\* 5 to 0xBBB) have both been processed once
C30_Witness ==
  /\ pc = "done"
  /\ indicesSet = {5}
  /\ consensusApplied[0] = 1
  /\ consensusApplied[1] = 1
  /\ "0xccc" \notin DOMAIN consensusTotals
  /\ Units(Get(consensusTotals, "0xbbb")) = ConsensusShare(1, "0xbbb")
  /\ Units(Get(consensusTotals, "0xbbb")) > 0
  /\ executionApplied[1] = << >>
  /\ settled[1] = "fulfilled"

====
